---- MODULE Spec2Model ----
(***************************************************************************)
(* A model of the egm-streamer detection pipeline:                         *)
(*   - StateMachine.update        (egm_state_detector/state_machine.py)    *)
(*   - EgmStateDetector.step      (egm_streamer/detector.py)               *)
(*   - detection_loop, snapshot_loop, lifespan (egm_streamer/api.py)       *)
(*   - PersistentCapturer         (egm_streamer/capture.py)                *)
(*   - ReferenceManager           (egm_streamer/refs.py)                   *)
(*   - Matcher.match_state        (egm_streamer/matcher.py)                *)
(* Specification Spec is the detector driven by detection_loop; SpecCap is *)
(* one PersistentCapturer called from two threads; SpecSnap is the         *)
(* PersistentCapturer driven by snapshot_loop; SpecRef is the              *)
(* ReferenceManager under detection cycles, the reference endpoints and an *)
(* operator working in the directories; SpecEval is the matching of a      *)
(* cycle against the cache; SpecMatch is match_state on the inputs of a    *)
(* bounded set; SpecLoad is _load_state_refs running against a get_hashes  *)
(* of another thread; SpecStatus is _write_status running against a        *)
(* get_state of another thread; SpecFrame is the capture process           *)
(* overwriting the frame file under detection cycles; SpecCfg is the       *)
(* evaluation loop of step() under every configuration of a bounded set;   *)
(* SpecLife is the service from start to the end of lifespan; SpecPerturb  *)
(* is StateMachine.update run on a sequence and on a perturbed one;        *)
(* SpecLink is load_config resolving linked ROIs; SpecCycle is step()      *)
(* taken apart, with the reference endpoints in threads of their own;      *)
(* SpecMulti is one PersistentCapturer with every method called from       *)
(* either of two threads.                                                  *)
(***************************************************************************)
EXTENDS Integers, Sequences, FiniteSets, TLC

(* ------------------------------ bounds --------------------------------- *)
\* DebounceConfig (models.py:45-47) of the configuration that is checked
confirm_frames == 2
drop_frames == 3
\* cap of the streak counters (the guards stop a counter at this value)
MaxStreak == 4
\* largest average distance of a matching state that a frame is drawn with
MaxDist == 4

\* the clock of the capturer runs from RestartFloor to MaxTime (seconds)
MaxTime == 13
\* at most this many capture processes are spawned
MaxSpawn == 2
\* at most this many restarts are counted
MaxRestarts == 3

\* reference image files of one state are numbered 1..MaxFiles
MaxFiles == 2
\* the file system's clock (the mtimes it stamps) runs from 1 to MaxClock
MaxClock == 3

\* match_state is called on at most MaxRois ROIs
MaxRois == 2
\* fingerprint distances of the two-ROI inputs run from 0 to MaxHashDist
MaxHashDist == 12
\* MatchPolicy.min_match runs from 1 to MaxMinMatch
MaxMinMatch == 2

\* the capture process writes at most MaxFrames frames
MaxFrames == 4
MaxSeq == 5            \* longest candidate sequence fed to the debouncer
MaxPrio == 3           \* longest priority list of a configuration

(* ------------------------- program constants --------------------------- *)
\* capture.py:173  "if time_since_last < 5.0"
RestartFloor == 5
\* api.py:123  "stop_event.wait(5.0)"
JoinTimeout == 2       \* api.py:54,56: join(timeout=2.0), seconds
StopWait == 5          \* capture.py:133: process.wait(timeout=5.0), seconds
MonitorPeriod == 5
\* detector.py:133  "current_state_distance <= best_distance + 3"
LockTolerance == 3
\* matcher.py:80  avg_distance reported when no ROI contributed
NoRoiDistance == 999
\* matcher.py:58  contribution of a negative ROI whose signature was found
Penalty == 100

\* DetectorConfigWrapper.priority (models.py:88), here a configuration of two states
priority == <<"SELECT", "PLAYING">>
\* the configured states (detector.states); every priority entry is configured
States == {priority[i] : i \in 1..Len(priority)}
Other == "OTHER"
Unknown == "UNKNOWN"

VARIABLES
    \* --- StateMachine
    current_state, streaks, none_streak,
    \* --- EgmStateDetector
    last_state,      \* self._last_state
    result,          \* the DetectionResult returned by the last step()
    status_state,    \* "state" field of the status file, "NOFILE" before any write
    notified,        \* <<prev, new>> handed to the notifier in the last step, or <<>>
    notifyRaised,    \* whether that call of the notifier raised
    \* --- detection_loop / lifespan
    detLoop,         \* "running" | "crashed" | "stopped"
    stop_event,
    \* --- history of the last cycle (observation only, read by no action guard)
    lastAct,         \* the last action: "none" | "ok" | "readfail" | "raised" | "shutdown" | "exit"
    cand,            \* candidate fed to the debouncer in the last ok cycle
    prevState,       \* current_state before the last cycle
    runCand, runLen, \* last debouncer input and how many times in a row it came
    quiet            \* what the last cycle would have left behind had its
                     \* notifier call (if any) returned normally

detVars == <<current_state, streaks, none_streak,
             last_state, result, status_state, notified, notifyRaised,
             detLoop, stop_event,
             lastAct, cand, prevState, runCand, runLen, quiet>>

VARIABLES
    \* --- PersistentCapturer
    process,          \* self.process: the pid of the handle, 0 for None
    stop_requested,   \* self._stop_requested
    restart_count,    \* self._restart_count
    last_start_time,  \* self._last_start_time
    lock,             \* self._lock: the thread holding it, "free" otherwise
    \* --- the operating system
    alive,            \* pids of the capture processes that are running
    spawned,          \* number of processes spawned so far (pids are 1..spawned)
    now,              \* time.time(), in seconds
    \* --- the calling threads
    pc,               \* where each thread stands inside a PersistentCapturer method
    op,               \* the method each thread called: "start" | "stop" | "ensure_running"
    wake,             \* the time a thread sleeping in ensure_running wakes up
    ret,              \* what the method a thread called last returned
    \* --- history of the last capturer action (observation only)
    capAct,           \* <<kind of the action, method it was part of>>
    prevStartTime,    \* last_start_time before the last spawn
    erAttempt         \* time of the last start attempt made through ensure_running

capVars == <<process, stop_requested, restart_count, last_start_time, lock,
             alive, spawned, now, pc, op, wake, ret,
             capAct, prevStartTime, erAttempt>>

VARIABLES
    \* --- snapshot_loop
    snapPc,           \* "init" | "loop" | "er" | "wait" | "stopping" | "done" | "returned"
    snapWake          \* the time stop_event.wait(5.0) times out

snapVars == <<snapPc, snapWake>>

VARIABLES
    \* --- the reference directories on disk
    refs_dir,         \* per state: [exists, files], files maps a file to its mtime
    fsNow,            \* the newest mtime stamped so far
    \* --- ReferenceManager
    caches,           \* self.caches: state -> (roi name -> list of fingerprints)
    mtimes,           \* self.mtimes: state -> directory mtime of the last load
    \* --- history of the last reference action (observation only)
    refAct,           \* <<kind of the action, state it was about>>
    loaded,           \* the states whose cache the last action recomputed
    lastChange,       \* per state: the last change of its directory since its
                      \* cache was last recomputed, "none" if there was none
    cause,            \* per state recomputed by the last action: lastChange before it
    loadMtime,        \* per state: the directory's largest mtime when its cache
                      \* was last computed
    evalMatched       \* the states whose is_match was true in the last cycle
                      \* that matched its frame

refVars == <<refs_dir, fsNow, caches, mtimes, refAct, loaded, lastChange,
             cause, loadMtime, evalMatched>>

VARIABLES
    \* --- one call of Matcher.match_state
    m_rois,           \* the ROIs: [required, negative, dists], dists the distances
                      \* of the crop's fingerprint to the ROI's reference fingerprints
    m_policy,         \* the MatchPolicy: [min_match, threshold]
    m_result          \* what the call returned, NoResult before it

matchVars == <<m_rois, m_policy, m_result>>

VARIABLES
    \* --- _load_state_refs in one thread, get_hashes in another
    ld,               \* the loading thread: its position and its locals
    gh                \* the reading thread: its position, the per-state dict it
                      \* got from caches, and the list it returned

loadVars == <<ld, gh>>

VARIABLES
    \* --- _write_status in the detection thread, get_state in another
    status_fs,        \* the content of the status path and of path + ".tmp"
    ws,               \* _write_status: its position and the result it writes
    gs,               \* get_state: its position, the file it opened, its answer
    handed            \* the states of the results handed to _write_status so far

statVars == <<status_fs, ws, gs, handed>>

VARIABLES
    \* --- the frame file, its writer and the cycle that reads it
    frame_file,       \* what config.snapshot.output_path holds: [id, n], the
                      \* first n pieces of frame id; NoFrame before a first write
    frames_written,   \* how many frames the capture process began to write
    fr                \* the last cycle's frame read: how it ended, the bytes it
                      \* read, the image handed to the matcher, the attempts made

frameVars == <<frame_file, frames_written, fr>>

VARIABLES
    \* --- the evaluation loop of step() under any configuration
    det_states,       \* the keys of det_cfg.states
    det_priority,     \* det_cfg.priority
    matches_summary,  \* the matches of the cycle's DetectionResult: state -> is_match
    cycle_done        \* whether a cycle has run

cfgVars == <<det_states, det_priority, matches_summary, cycle_done>>

VARIABLES
    \* --- the shutdown half of lifespan
    lifePc,           \* "serving", "join_detect", "join_snap", "completed"
    joinDeadline,     \* when the join in progress gives up
    stopDeadline      \* when the process.wait(timeout=5.0) of stop() gives up

lifeVars == <<lifePc, joinDeadline, stopDeadline>>

VARIABLES
    \* --- two runs of StateMachine.update, on a sequence and on a perturbed one
    p_seq,            \* the candidate sequence
    p_kind,           \* "drop" or "swap"
    p_idx,            \* the input dropped, or the first of the two swapped
    p_runs            \* what the two runs did, NoRuns before they ran

perturbVars == <<p_seq, p_kind, p_idx, p_runs>>

VARIABLES
    \* --- load_config resolving the linked ROIs of a configuration
    lk_order,         \* the states in the order of the states dict
    lk_rois,          \* per state its ROI of the one name looked at: [x, ref_state]
    lk_result         \* what load_config did, NoLoad before it ran

linkVars == <<lk_order, lk_rois, lk_result>>

VARIABLES
    \* --- one detection cycle step by step, the reference endpoints beside it
    cy                \* where step() stands, the cache as its staleness check
                      \* left it, and the cache each state was matched against

cycleVars == <<cy>>

vars == <<detVars, capVars, snapVars, refVars, matchVars, loadVars, statVars,
          frameVars, cfgVars, lifeVars, perturbVars, linkVars, cycleVars>>

(* ------------------------- StateMachine.update ------------------------- *)
\* dict.get(s, 0)
StreakOf(st, s) == IF s \in DOMAIN st THEN st[s] ELSE 0

EmptyStreaks == [s \in {} |-> 0]

\* UpdateStreaks leaving the miss-streak as it is on a hit
UpdateStreaks_KeepMisses(st, ns, detected_state) ==
    IF detected_state # Other
    THEN << [s \in (DOMAIN st) \cup {detected_state} |->
                IF s = detected_state THEN StreakOf(st, s) + 1 ELSE 0],
            ns >>
    ELSE << EmptyStreaks, ns + 1 >>

\* UpdateStreaks leaving the other candidates' streaks as they are
UpdateStreaks_KeepOthers(st, ns, detected_state) ==
    IF detected_state # Other
    THEN << [s \in (DOMAIN st) \cup {detected_state} |->
                IF s = detected_state THEN StreakOf(st, s) + 1 ELSE st[s]],
            0 >>
    ELSE << EmptyStreaks, ns + 1 >>

\* state_machine.py:19-34, "1. Update streaks": returns <<streaks, none_streak>>
UpdateStreaks(st, ns, detected_state) ==
    IF detected_state # Other
    THEN << [s \in (DOMAIN st) \cup {detected_state} |->
                IF s = detected_state THEN StreakOf(st, s) + 1 ELSE 0],
            0 >>
    ELSE << EmptyStreaks, ns + 1 >>

\* Transition with case A comparing "streak > confirm_frames"
Transition_ConfirmLate(cur, st, ns, detected_state, confirm, drop) ==
    IF cur = Other
    THEN IF detected_state # Other /\ st[detected_state] > confirm
         THEN detected_state
         ELSE cur
    ELSE IF detected_state = cur
         THEN cur
         ELSE IF detected_state # Other
              THEN IF st[detected_state] >= confirm THEN detected_state ELSE cur
              ELSE IF ns >= drop THEN Other ELSE cur

\* Transition with case B comparing "none_streak > drop_frames"
Transition_DropLate(cur, st, ns, detected_state, confirm, drop) ==
    IF cur = Other
    THEN IF detected_state # Other /\ st[detected_state] >= confirm
         THEN detected_state
         ELSE cur
    ELSE IF detected_state = cur
         THEN cur
         ELSE IF detected_state # Other
              THEN IF st[detected_state] >= confirm THEN detected_state ELSE cur
              ELSE IF ns > drop THEN Other ELSE cur

\* Transition with case B switching to another valid state at once
Transition_NoHysteresis(cur, st, ns, detected_state, confirm, drop) ==
    IF cur = Other
    THEN IF detected_state # Other /\ st[detected_state] >= confirm
         THEN detected_state
         ELSE cur
    ELSE IF detected_state = cur
         THEN cur
         ELSE IF detected_state # Other
              THEN detected_state
              ELSE IF ns >= drop THEN Other ELSE cur

\* Transition with case B giving up the state for OTHER when another valid
\* state shows up unconfirmed
Transition_ResetOnSwitch(cur, st, ns, detected_state, confirm, drop) ==
    IF cur = Other
    THEN IF detected_state # Other /\ st[detected_state] >= confirm
         THEN detected_state
         ELSE cur
    ELSE IF detected_state = cur
         THEN cur
         ELSE IF detected_state # Other
              THEN IF st[detected_state] >= confirm THEN detected_state ELSE Other
              ELSE IF ns >= drop THEN Other ELSE cur

\* Transition with case B falling back to OTHER on the first miss
Transition_DropAtOnce(cur, st, ns, detected_state, confirm, drop) ==
    IF cur = Other
    THEN IF detected_state # Other /\ st[detected_state] >= confirm
         THEN detected_state
         ELSE cur
    ELSE IF detected_state = cur
         THEN cur
         ELSE IF detected_state # Other
              THEN IF st[detected_state] >= confirm THEN detected_state ELSE cur
              ELSE Other

\* state_machine.py:36-60, "2. State Transition Logic": the new current_state
Transition(cur, st, ns, detected_state, confirm, drop) ==
    IF cur = Other
    THEN IF detected_state # Other /\ st[detected_state] >= confirm
         THEN detected_state
         ELSE cur
    ELSE IF detected_state = cur
         THEN cur
         ELSE IF detected_state # Other
              THEN IF st[detected_state] >= confirm THEN detected_state ELSE cur
              ELSE IF ns >= drop THEN Other ELSE cur

\* update() deciding the transition on the counters as they were before this
\* input was counted
Update_StaleCounters(sm, detected_state, confirm, drop) ==
    LET u == UpdateStreaks(sm.streaks, sm.none_streak, detected_state)
    IN  [ current_state |-> Transition(sm.current_state,
                                       [s \in DOMAIN u[1] |-> StreakOf(sm.streaks, s)],
                                       sm.none_streak,
                                       detected_state, confirm, drop),
          streaks       |-> u[1],
          none_streak   |-> u[2] ]

\* state_machine.py:13-60: update() as a function of the machine's fields
Update(sm, detected_state, confirm, drop) ==
    LET u == UpdateStreaks(sm.streaks, sm.none_streak, detected_state)
    IN  [ current_state |-> Transition(sm.current_state, u[1], u[2],
                                       detected_state, confirm, drop),
          streaks       |-> u[1],
          none_streak   |-> u[2] ]

(* ------------------------ EgmStateDetector.step ------------------------ *)
\* One state's MatchResult as step() reads it (is_match, avg_distance).  A
\* matching state has an average distance in 0..MaxDist; a non-matching one
\* is drawn with the distance match_state reports when nothing contributed.
MatchOutcomes ==
    { [is_match |-> TRUE, avg_distance |-> d] : d \in 0..MaxDist }
    \cup { [is_match |-> FALSE, avg_distance |-> NoRoiDistance] }

\* detector.py:112-116: matching states, in matches_summary (= priority) order
MatchingStates(matches) ==
    SelectSeq(priority, LAMBDA s : s \in DOMAIN matches /\ matches[s].is_match)

\* an unstable insertion: x goes before the entries whose key equals its own
RECURSIVE InsertByDistance_Unstable(_, _, _)
InsertByDistance_Unstable(x, sorted, matches) ==
    IF sorted = <<>> THEN <<x>>
    ELSE IF matches[Head(sorted)].avg_distance < matches[x].avg_distance
         THEN <<Head(sorted)>> \o InsertByDistance_Unstable(x, Tail(sorted), matches)
         ELSE <<x>> \o sorted

\* list.sort(key=distance) is stable: x goes behind every entry whose key is <= its own
RECURSIVE InsertByDistance(_, _, _)
InsertByDistance(x, sorted, matches) ==
    IF sorted = <<>> THEN <<x>>
    ELSE IF matches[Head(sorted)].avg_distance <= matches[x].avg_distance
         THEN <<Head(sorted)>> \o InsertByDistance(x, Tail(sorted), matches)
         ELSE <<x>> \o sorted

RECURSIVE SortByDistance(_, _)
\* detector.py:120
SortByDistance(seq, matches) ==
    IF seq = <<>> THEN <<>>
    ELSE InsertByDistance(seq[Len(seq)],
                          SortByDistance(SubSeq(seq, 1, Len(seq) - 1), matches),
                          matches)

\* LockOrBest without the lock: always the best by distance
LockOrBest_NoLock(cur, curDist, best, bestDist) == best

\* LockOrBest with the tolerance compared strictly
LockOrBest_Strict(cur, curDist, best, bestDist) ==
    IF curDist < bestDist + LockTolerance THEN cur ELSE best

\* detector.py:131-141: the choice between the current state and the best one
LockOrBest(cur, curDist, best, bestDist) ==
    IF curDist <= bestDist + LockTolerance THEN cur ELSE best

\* a selection that keeps a configured current state when it does not match
ChooseCandidate_Sticky(matches, cur) ==
    LET matching == MatchingStates(matches)
    IN  IF matching = <<>> THEN Other
        ELSE IF cur \in States THEN cur
        ELSE SortByDistance(matching, matches)[1]

\* detector.py:109-141: best_candidate
ChooseCandidate(matches, cur) ==
    LET matching == MatchingStates(matches)
    IN  IF matching = <<>> THEN Other
        ELSE LET sorted == SortByDistance(matching, matches)
                 best   == sorted[1]
             IN  IF \E i \in 1..Len(sorted) : sorted[i] = cur
                 THEN LockOrBest(cur, matches[cur].avg_distance,
                                 best, matches[best].avg_distance)
                 ELSE best

SM == [current_state |-> current_state, streaks |-> streaks, none_streak |-> none_streak]

\* what the claims on the notifier compare: the debouncer's fields, the
\* result returned and the state in the status file
Observed ==
    [current_state |-> current_state, streaks |-> streaks,
     none_streak |-> none_streak, result |-> result,
     status_state |-> status_state]

\* a notifier that is called in every cycle
Notification_EveryCycle(last, final) == <<last, final>>
\* detector.py:152-155: the notifier is called with (self._last_state,
\* final_state) when the two differ; <<>> stands for no call
Notification(last, final) ==
    IF final # last THEN <<last, final>> ELSE <<>>

\* a step() that lets the notifier's exception through: lines 158-164 are
\* not reached
AfterNotify_Unisolated(before, after, raised) ==
    IF raised THEN before ELSE after
\* step() notifying without remembering the state it notified about
AfterNotify_KeepLast(before, after, raised) ==
    [after EXCEPT !.last_state = before.last_state]
\* detector.py:154-164: the call is wrapped in try/except Exception, and
\* _last_state, the status file and the return follow it either way
AfterNotify(before, after, raised) == after

\* StepReadFail feeding OTHER to the debouncer instead of returning at once
StepReadFail_Debounced ==
    /\ detLoop = "running" /\ ~stop_event
    /\ LET sm == Update(SM, Other, confirm_frames, drop_frames)
       IN  /\ sm.none_streak <= MaxStreak
           /\ current_state' = sm.current_state
           /\ streaks' = sm.streaks
           /\ none_streak' = sm.none_streak
    /\ result' = [state |-> Unknown, matches |-> [s \in {} |-> 0]]
    /\ lastAct' = "readfail"
    /\ prevState' = current_state
    /\ notified' = <<>>
    /\ notifyRaised' = FALSE
    /\ UNCHANGED <<last_state, status_state, detLoop, stop_event,
                   cand, runCand, runLen>>
    /\ quiet' = Observed'

\* a step() that hands a failed read to the debouncer as candidate UNKNOWN
StepReadFail_FeedsUnknown ==
    /\ detLoop = "running" /\ ~stop_event
    /\ LET sm == Update(SM, Unknown, confirm_frames, drop_frames)
       IN  /\ \A s \in DOMAIN sm.streaks : sm.streaks[s] <= MaxStreak
           /\ current_state' = sm.current_state
           /\ streaks' = sm.streaks
           /\ none_streak' = sm.none_streak
    /\ result' = [state |-> Unknown, matches |-> [s \in {} |-> 0]]
    /\ lastAct' = "readfail"
    /\ prevState' = current_state
    /\ notified' = <<>>
    /\ notifyRaised' = FALSE
    /\ UNCHANGED <<last_state, status_state, detLoop, stop_event,
                   cand, runCand, runLen>>
    /\ quiet' = Observed'

\* detector.py:72-81: the frame could not be read; step() returns at once
StepReadFail ==
    /\ detLoop = "running" /\ ~stop_event
    /\ result' = [state |-> Unknown, matches |-> [s \in {} |-> 0]]
    /\ lastAct' = "readfail"
    /\ prevState' = current_state
    /\ notified' = <<>>
    /\ notifyRaised' = FALSE
    /\ UNCHANGED <<current_state, streaks, none_streak,
                   last_state, status_state, detLoop, stop_event,
                   cand, runCand, runLen>>
    /\ quiet' = Observed'

\* detector.py:83-164: the frame was read; match, choose, debounce, notify, persist
StepOk ==
    /\ detLoop = "running" /\ ~stop_event
    /\ \E matches \in [States -> MatchOutcomes], writeOk \in BOOLEAN :
         LET best_candidate == ChooseCandidate(matches, current_state)
             sm == Update(SM, best_candidate, confirm_frames, drop_frames)
             final_state == sm.current_state
             before == [last_state |-> last_state, result |-> result,
                        status_state |-> status_state]
             after  == [last_state |-> final_state,
                        result |-> [state |-> final_state, matches |-> matches],
                        status_state |-> IF writeOk THEN final_state
                                         ELSE status_state]
         IN  /\ \A s \in DOMAIN sm.streaks : sm.streaks[s] <= MaxStreak
             /\ sm.none_streak <= MaxStreak
             /\ current_state' = final_state
             /\ streaks' = sm.streaks
             /\ none_streak' = sm.none_streak
             /\ notified' = Notification(last_state, final_state)
             /\ \E raised \in (IF notified' = <<>> THEN {FALSE} ELSE BOOLEAN) :
                  /\ notifyRaised' = raised
                  /\ last_state' = AfterNotify(before, after, raised).last_state
                  /\ result' = AfterNotify(before, after, raised).result
                  /\ status_state' = AfterNotify(before, after, raised).status_state
             /\ quiet' = [current_state |-> final_state, streaks |-> sm.streaks,
                          none_streak |-> sm.none_streak, result |-> after.result,
                          status_state |-> after.status_state]
             /\ lastAct' = "ok"
             /\ cand' = best_candidate
             /\ prevState' = current_state
             /\ runCand' = best_candidate
             /\ runLen' = IF best_candidate = runCand THEN runLen + 1 ELSE 1
    /\ UNCHANGED <<detLoop, stop_event>>

\* detector.py:67 and 86-100 stand outside step()'s try: an exception of
\* reload_if_needed or match_state leaves step() and, api.py:78-79, the loop
StepRaise ==
    /\ detLoop = "running" /\ ~stop_event
    /\ detLoop' = "crashed"
    /\ lastAct' = "raised"
    /\ prevState' = current_state
    /\ UNCHANGED <<current_state, streaks, none_streak,
                   last_state, result, status_state, notified, notifyRaised,
                   stop_event, cand, runCand, runLen, quiet>>

\* api.py:52  lifespan shutdown
Shutdown ==
    /\ ~stop_event
    /\ stop_event' = TRUE
    /\ lastAct' = "shutdown"
    /\ UNCHANGED <<current_state, streaks, none_streak,
                   last_state, result, status_state, notified, notifyRaised,
                   detLoop, cand, prevState, runCand, runLen, quiet>>

\* api.py:78  "while not stop_event.is_set()" ends the loop
DetLoopExit ==
    /\ detLoop = "running" /\ stop_event
    /\ detLoop' = "stopped"
    /\ lastAct' = "exit"
    /\ UNCHANGED <<current_state, streaks, none_streak,
                   last_state, result, status_state, notified, notifyRaised,
                   stop_event, cand, prevState, runCand, runLen, quiet>>

\* StateMachine.__init__ (state_machine.py:5-11), EgmStateDetector.__init__
\* (detector.py:27-45)
DetInit ==
    /\ current_state = Other
    /\ streaks = EmptyStreaks
    /\ none_streak = 0
    /\ last_state = Unknown
    /\ result = [state |-> "NONE", matches |-> [s \in {} |-> 0]]
    /\ status_state = "NOFILE"
    /\ notified = <<>>
    /\ notifyRaised = FALSE
    /\ detLoop = "running"
    /\ stop_event = FALSE
    /\ lastAct = "none"
    /\ cand = "NONE"
    /\ prevState = Other
    /\ runCand = "NONE"
    /\ runLen = 0
    /\ quiet = Observed

(* -------------------------- PersistentCapturer ------------------------ *)
Threads == {"mon", "ext"}

\* capture.py:103 / 146: self.process is not None and self.process.poll() is None
IsAlive == process # 0 /\ process \in alive

\* WaitTime sleeping for the time already elapsed instead of the time left
WaitTime_Elapsed(t_now, t_last) ==
    IF t_now - t_last < RestartFloor THEN t_now - t_last ELSE 0

\* capture.py:172-176: how long ensure_running sleeps before it restarts
WaitTime(t_now, t_last) ==
    IF t_now - t_last < RestartFloor THEN RestartFloor - (t_now - t_last) ELSE 0

\* a start() that reports a failed spawn as a success
SpawnFailureResult_Success == TRUE
\* capture.py:121-123: Popen raised; the exception is caught and start()
\* returns False
SpawnFailureResult == FALSE

\* capture.py:102-123: the body of start(), run under self._lock by thread t
\* as part of method via ("start" or "ensure_running")
StartBody(t, via) ==
    /\ lock = "free"
    /\ pc' = [pc EXCEPT ![t] = "idle"]
    /\ op' = [op EXCEPT ![t] = via]
    /\ IF IsAlive
       THEN /\ ret' = [ret EXCEPT ![t] = TRUE]
            /\ capAct' = <<"already", via>>
            /\ UNCHANGED <<process, stop_requested, last_start_time, alive, spawned,
                           prevStartTime, erAttempt>>
       ELSE /\ stop_requested' = FALSE
            /\ erAttempt' = IF via = "ensure_running" THEN now ELSE erAttempt
            /\ \E popenOk \in BOOLEAN :
                 IF popenOk
                 THEN /\ spawned < MaxSpawn
                      /\ spawned' = spawned + 1
                      /\ process' = spawned + 1
                      /\ alive' = alive \cup {spawned + 1}
                      /\ prevStartTime' = last_start_time
                      /\ last_start_time' = now
                      /\ ret' = [ret EXCEPT ![t] = TRUE]
                      /\ capAct' = <<"spawn", via>>
                 ELSE /\ ret' = [ret EXCEPT ![t] = SpawnFailureResult]
                      /\ capAct' = <<"spawnfail", via>>
                      /\ UNCHANGED <<process, last_start_time, alive, spawned,
                                     prevStartTime>>
    /\ UNCHANGED <<restart_count, lock, now, wake>>

\* capture.py:100-123: start() called by thread t
Start(t) ==
    /\ pc[t] = "idle"
    /\ StartBody(t, "start")

\* capture.py:125-133: stop() takes the lock, sets the flag and terminates the process
StopBegin(t) ==
    /\ pc[t] = "idle"
    /\ lock = "free"
    /\ stop_requested' = TRUE
    /\ op' = [op EXCEPT ![t] = "stop"]
    /\ IF process # 0
       THEN /\ lock' = t
            /\ pc' = [pc EXCEPT ![t] = "sp_wait"]
            /\ ret' = ret
       ELSE /\ lock' = "free"
            /\ pc' = pc
            /\ ret' = [ret EXCEPT ![t] = "none"]
    /\ capAct' = <<"stopbegin", "stop">>
    /\ UNCHANGED <<process, restart_count, last_start_time, alive, spawned, now, wake,
                   prevStartTime, erAttempt>>

\* capture.py:133-141: the process is gone (terminated, or killed after the
\* 5 s wait); the handle is dropped and the lock released
StopEnd(t) ==
    /\ pc[t] = "sp_wait"
    /\ lock = t
    /\ alive' = alive \ {process}
    /\ process' = 0
    /\ lock' = "free"
    /\ pc' = [pc EXCEPT ![t] = "idle"]
    /\ ret' = [ret EXCEPT ![t] = "none"]
    /\ capAct' = <<"stopend", "stop">>
    /\ UNCHANGED <<stop_requested, restart_count, last_start_time, spawned, now, op,
                   wake, prevStartTime, erAttempt>>

\* capture.py:150-151: ensure_running() reads the flag without the lock
ErCheck(t) ==
    /\ pc[t] = "idle"
    /\ op' = [op EXCEPT ![t] = "ensure_running"]
    /\ IF stop_requested
       THEN /\ pc' = pc
            /\ ret' = [ret EXCEPT ![t] = FALSE]
            /\ capAct' = <<"refused", "ensure_running">>
       ELSE /\ pc' = [pc EXCEPT ![t] = "er_isrun"]
            /\ ret' = ret
            /\ capAct' = <<"checked", "ensure_running">>
    /\ UNCHANGED <<process, stop_requested, restart_count, last_start_time, lock,
                   alive, spawned, now, wake, prevStartTime, erAttempt>>

\* capture.py:153-154 with 143-146: is_running() under the lock
ErIsRunning(t) ==
    /\ pc[t] = "er_isrun"
    /\ lock = "free"
    /\ IF IsAlive
       THEN /\ pc' = [pc EXCEPT ![t] = "idle"]
            /\ ret' = [ret EXCEPT ![t] = TRUE]
       ELSE /\ pc' = [pc EXCEPT ![t] = "er_clean"]
            /\ ret' = ret
    /\ capAct' = <<"isrunning", "ensure_running">>
    /\ UNCHANGED <<process, stop_requested, restart_count, last_start_time, lock,
                   alive, spawned, now, op, wake, prevStartTime, erAttempt>>

\* ensure_running clearing the handle without reading the process's stderr
\* to its end
ErClean_NoWait(t) ==
    /\ pc[t] = "er_clean"
    /\ lock = "free"
    /\ process' = 0
    /\ pc' = [pc EXCEPT ![t] = "er_time"]
    /\ capAct' = <<"clean", "ensure_running">>
    /\ UNCHANGED <<stop_requested, restart_count, last_start_time, lock,
                   alive, spawned, now, op, wake, ret, prevStartTime, erAttempt>>

\* capture.py:157-169: the handle is cleared under the lock.  With a handle
\* there, stderr.read() (161) comes first and returns at the end of the
\* pipe, which a process that has exited has reached
ErClean(t) ==
    /\ pc[t] = "er_clean"
    /\ lock = "free"
    /\ process = 0 \/ process \notin alive
    /\ process' = 0
    /\ pc' = [pc EXCEPT ![t] = "er_time"]
    /\ capAct' = <<"clean", "ensure_running">>
    /\ UNCHANGED <<stop_requested, restart_count, last_start_time, lock,
                   alive, spawned, now, op, wake, ret, prevStartTime, erAttempt>>

\* capture.py:157-161: the handle found under the lock is of a process that
\* another thread started meanwhile; stderr.read() blocks on its open pipe,
\* the lock held
ErCleanBlock(t) ==
    /\ pc[t] = "er_clean"
    /\ lock = "free"
    /\ process # 0 /\ process \in alive
    /\ lock' = t
    /\ pc' = [pc EXCEPT ![t] = "er_read"]
    /\ capAct' = <<"reading", "ensure_running">>
    /\ UNCHANGED <<process, stop_requested, restart_count, last_start_time,
                   alive, spawned, now, op, wake, ret, prevStartTime, erAttempt>>

\* capture.py:161-169: the process exited, the pipe ended, read() returned;
\* the handle is cleared and the lock released
ErCleanUnblock(t) ==
    /\ pc[t] = "er_read"
    /\ lock = t
    /\ process \notin alive
    /\ process' = 0
    /\ lock' = "free"
    /\ pc' = [pc EXCEPT ![t] = "er_time"]
    /\ capAct' = <<"cleanwaited", "ensure_running">>
    /\ UNCHANGED <<stop_requested, restart_count, last_start_time,
                   alive, spawned, now, op, wake, ret, prevStartTime, erAttempt>>

\* capture.py:143-146: is_running() called by thread t
IsRunning(t) ==
    /\ pc[t] = "idle"
    /\ lock = "free"
    /\ op' = [op EXCEPT ![t] = "is_running"]
    /\ ret' = [ret EXCEPT ![t] = IsAlive]
    /\ capAct' = <<"isrunning", "is_running">>
    /\ UNCHANGED <<process, stop_requested, restart_count, last_start_time, lock,
                   alive, spawned, now, pc, wake, prevStartTime, erAttempt>>

\* capture.py:172-176: the time since the last start is measured and the
\* thread goes to sleep for what is left of the floor
ErTime(t) ==
    /\ pc[t] = "er_time"
    /\ wake' = [wake EXCEPT ![t] = now + WaitTime(now, last_start_time)]
    /\ pc' = [pc EXCEPT ![t] = "er_sleep"]
    /\ capAct' = <<"timed", "ensure_running">>
    /\ UNCHANGED <<process, stop_requested, restart_count, last_start_time, lock,
                   alive, spawned, now, op, ret, prevStartTime, erAttempt>>

\* capture.py:176-179: time.sleep returns (at once when there was nothing to
\* wait for) and the restart is counted
ErWake(t) ==
    /\ pc[t] = "er_sleep"
    /\ now >= wake[t]
    /\ restart_count < MaxRestarts
    /\ restart_count' = restart_count + 1
    /\ wake' = [wake EXCEPT ![t] = 0]
    /\ pc' = [pc EXCEPT ![t] = "er_start"]
    /\ capAct' = <<"woke", "ensure_running">>
    /\ UNCHANGED <<process, stop_requested, last_start_time, lock,
                   alive, spawned, now, op, ret, prevStartTime, erAttempt>>

\* capture.py:180: return self.start()
ErStart(t) ==
    /\ pc[t] = "er_start"
    /\ StartBody(t, "ensure_running")

\* the capture process exits by itself (source unreachable, stream ended)
ProcExit ==
    /\ \E p \in alive :
         alive' = alive \ {p}
    /\ capAct' = <<"exit", "process">>
    /\ UNCHANGED <<process, stop_requested, restart_count, last_start_time, lock,
                   spawned, now, pc, op, wake, ret, prevStartTime, erAttempt>>

\* a second passes
Tick ==
    /\ now < MaxTime
    /\ now' = now + 1
    /\ capAct' = <<"tick", "clock">>
    /\ UNCHANGED <<process, stop_requested, restart_count, last_start_time, lock,
                   alive, spawned, pc, op, wake, ret, prevStartTime, erAttempt>>

\* the clock of the many-caller runs: time passes a restart floor at a time,
\* which is what a thread sleeping in ensure_running waits for at most
TickFloor ==
    /\ now + RestartFloor <= MaxTime
    /\ now' = now + RestartFloor
    /\ capAct' = <<"tick", "clock">>
    /\ UNCHANGED <<process, stop_requested, restart_count, last_start_time, lock,
                   alive, spawned, pc, op, wake, ret, prevStartTime, erAttempt>>

\* PersistentCapturer.__init__ (capture.py:70-78); the clock starts at a time
\* that is at least RestartFloor after the 0.0 of _last_start_time
CapInit ==
    /\ process = 0
    /\ stop_requested = FALSE
    /\ restart_count = 0
    /\ last_start_time = 0
    /\ lock = "free"
    /\ alive = {}
    /\ spawned = 0
    /\ now = RestartFloor
    /\ pc = [t \in Threads |-> "idle"]
    /\ op = [t \in Threads |-> "none"]
    /\ wake = [t \in Threads |-> 0]
    /\ ret = [t \in Threads |-> "none"]
    /\ capAct = <<"none", "none">>
    /\ prevStartTime = 0
    /\ erAttempt = 0

(* ----------------------------- snapshot_loop --------------------------- *)
\* api.py:115-117: the first start(); the function returns when it fails
SnapFirstStart ==
    /\ snapPc = "init"
    /\ Start("mon")
    /\ snapPc' = IF ret'["mon"] = TRUE THEN "loop" ELSE "returned"
    /\ UNCHANGED snapWake

\* api.py:120-121: the loop condition holds and ensure_running() is called
SnapEnsure ==
    /\ snapPc = "loop"
    /\ ~stop_event
    /\ ErCheck("mon")
    /\ snapPc' = "er"
    /\ UNCHANGED snapWake

\* api.py:121-123: ensure_running() has returned; stop_event.wait(5.0) begins
SnapErReturned ==
    /\ snapPc = "er"
    /\ pc["mon"] = "idle"
    /\ snapPc' = "wait"
    /\ snapWake' = now + MonitorPeriod
    /\ UNCHANGED capVars

\* api.py:123: stop_event.wait(5.0) returns, on the event or on the timeout
SnapWaitDone ==
    /\ snapPc = "wait"
    /\ stop_event \/ now >= snapWake
    /\ snapPc' = "loop"
    /\ snapWake' = 0
    /\ UNCHANGED capVars

\* api.py:120 and 126-127: the loop ends on stop_event and stop() is called
SnapCleanup ==
    /\ snapPc = "loop"
    /\ stop_event
    /\ StopBegin("mon")
    /\ snapPc' = "stopping"
    /\ UNCHANGED snapWake

\* api.py:127-128: stop() has returned
SnapDone ==
    /\ snapPc = "stopping"
    /\ pc["mon"] = "idle"
    /\ snapPc' = "done"
    /\ UNCHANGED <<snapWake, capVars>>

SnapInit ==
    /\ snapPc = "init"
    /\ snapWake = 0

(* --------------------------- ReferenceManager -------------------------- *)
\* StateConfig.rois (models.py:20): the ROI names every state is configured with
RoiNames == <<"roi1", "roi2">>
RoiSet == {RoiNames[i] : i \in 1..Len(RoiNames)}

\* the image files a reference directory may hold
Files == 1..MaxFiles
\* a file that is no readable image (a note, a truncated .jpg): Image.open
\* fails on it or its suffix is not an image suffix (refs.py:46-51)
Junk == 0

NoDir == [exists |-> FALSE, files |-> [f \in {} |-> 0]]

SetMax(S) == CHOOSE x \in S : \A y \in S : y <= x

\* refs.py:67-71  _get_dir_mtime: the largest mtime of a file of the
\* directory, 0.0 when max() has nothing to look at (no file, no directory)
GetDirMtime(d) ==
    IF DOMAIN d.files = {} THEN 0
    ELSE SetMax({d.files[f] : f \in DOMAIN d.files})

\* refs.py:43-51: the images of the directory that open, in file name order
RECURSIVE ImagesFrom(_, _)
ImagesFrom(d, f) ==
    IF f > MaxFiles THEN <<>>
    ELSE (IF f \in DOMAIN d.files THEN <<f>> ELSE <<>>) \o ImagesFrom(d, f + 1)

Images(d) == ImagesFrom(d, 1)

\* refs.py:56-60: the fingerprints of one ROI, one per image; a fingerprint
\* is a function of the image's content, named here by the file and the time
\* its content was written
RoiHashes(images, d) ==
    [i \in 1..Len(images) |-> [file |-> images[i], ver |-> d.files[images[i]]]]

\* refs.py:54-61: state_cache
StateCache(d) ==
    [r \in {RoiNames[i] : i \in 1..Len(RoiNames)} |-> RoiHashes(Images(d), d)]

EmptyCache == [r \in {} |-> <<>>]

\* dict.get(name) with None as -1, and dict.get(name, 0)
MtimeOrNone(m, s) == IF s \in DOMAIN m THEN m[s] ELSE -1
MtimeOr0(m, s) == IF s \in DOMAIN m THEN m[s] ELSE 0

\* d[k] = v on a dict
Put(f, k, v) == [x \in (DOMAIN f) \cup {k} |-> IF x = k THEN v ELSE f[x]]

\* LoadStateRefs that does not record the mtime it loaded at
LoadStateRefs_NoStamp(rm, s, d) ==
    IF ~d.exists
    THEN [rm EXCEPT !.caches = Put(rm.caches, s, EmptyCache)]
    ELSE IF MtimeOrNone(rm.mtimes, s) = GetDirMtime(d)
         THEN rm
         ELSE [caches |-> Put(rm.caches, s, StateCache(d)),
               mtimes |-> rm.mtimes,
               loaded |-> rm.loaded \cup {s}]

\* refs.py:28-65  _load_state_refs on rm = [caches, mtimes, loaded], where
\* loaded collects the states whose fingerprints were recomputed
LoadStateRefs(rm, s, d) ==
    IF ~d.exists
    THEN [rm EXCEPT !.caches = Put(rm.caches, s, EmptyCache)]
    ELSE IF MtimeOrNone(rm.mtimes, s) = GetDirMtime(d)
         THEN rm
         ELSE [caches |-> Put(rm.caches, s, StateCache(d)),
               mtimes |-> Put(rm.mtimes, s, GetDirMtime(d)),
               loaded |-> rm.loaded \cup {s}]

\* refs.py:22-26  load_all: every state, in the order of self.states
RECURSIVE LoadAllFrom(_, _, _)
LoadAllFrom(rm, dirs, i) ==
    IF i > Len(priority) THEN rm
    ELSE LoadAllFrom(LoadStateRefs(rm, priority[i], dirs[priority[i]]), dirs, i + 1)

LoadAll(rm, dirs) == LoadAllFrom(rm, dirs, 1)

\* refs.py:76-81  reload_if_needed
RECURSIVE ReloadFrom(_, _, _)
ReloadFrom(rm, dirs, i) ==
    IF i > Len(priority) THEN rm
    ELSE LET s == priority[i]
         IN  ReloadFrom(IF GetDirMtime(dirs[s]) > MtimeOr0(rm.mtimes, s)
                        THEN LoadStateRefs(rm, s, dirs[s])
                        ELSE rm,
                        dirs, i + 1)

ReloadIfNeeded(rm, dirs) == ReloadFrom(rm, dirs, 1)

\* refs.py:73-74  get_hashes
GetHashes(c, s, r) ==
    IF s \in DOMAIN c /\ r \in DOMAIN c[s] THEN c[s][r] ELSE <<>>

RM == [caches |-> caches, mtimes |-> mtimes, loaded |-> {}]

\* what every action does with the manager it leaves behind
Loaded(rm) ==
    /\ caches' = rm.caches
    /\ mtimes' = rm.mtimes
    /\ loaded' = rm.loaded
    /\ cause' = [s \in States |-> IF s \in rm.loaded THEN lastChange[s] ELSE "none"]
    /\ loadMtime' = [s \in States |->
                       IF s \in rm.loaded THEN GetDirMtime(refs_dir'[s])
                       ELSE loadMtime[s]]

\* an action that does not call the manager
NotLoading ==
    /\ loaded' = {}
    /\ evalMatched' = {}
    /\ cause' = [s \in States |-> "none"]
    /\ UNCHANGED <<caches, mtimes, loadMtime>>

\* detector.py:63-81: a detection cycle whose frame read fails: the reload
\* of line 67 is all it does to the manager
CycleReload ==
    /\ UNCHANGED <<refs_dir, fsNow>>
    /\ Loaded(ReloadIfNeeded(RM, refs_dir))
    /\ lastChange' = [s \in States |->
                        IF s \in loaded' THEN "none" ELSE lastChange[s]]
    /\ refAct' = <<"reload_if_needed", "readfail">>
    /\ evalMatched' = {}

\* the directory of state s after a file operation
WithFile(d, f, t) == [exists |-> TRUE, files |-> Put(d.files, f, t)]
WithoutFile(d, f) ==
    [exists |-> d.exists, files |-> [x \in (DOMAIN d.files) \ {f} |-> d.files[x]]]

\* api.py:210-243  add_ref: the frame is copied into the directory as a new
\* file (the directory is made when missing) and load_all() is called
AddRef(s) ==
    /\ fsNow < MaxClock
    /\ \E f \in Files \ DOMAIN refs_dir[s].files :
         /\ refs_dir' = [refs_dir EXCEPT ![s] = WithFile(@, f, fsNow + 1)]
         /\ fsNow' = fsNow + 1
         /\ Loaded(LoadAll(RM, refs_dir'))
         /\ lastChange' = [t \in States |->
                             IF t \in loaded' THEN "none"
                             ELSE IF t = s THEN "add" ELSE lastChange[t]]
         /\ refAct' = <<"add_ref", s>>
         /\ evalMatched' = {}

\* api.py:268-285  delete_ref: the file is unlinked and load_all() is called
DeleteRef(s) ==
    /\ \E f \in DOMAIN refs_dir[s].files :
         /\ refs_dir' = [refs_dir EXCEPT ![s] = WithoutFile(@, f)]
         /\ Loaded(LoadAll(RM, refs_dir'))
         /\ lastChange' = [t \in States |->
                             IF t \in loaded' THEN "none"
                             ELSE IF t = s THEN "remove" ELSE lastChange[t]]
         /\ refAct' = <<"delete_ref", s>>
         /\ evalMatched' = {}
    /\ UNCHANGED fsNow

\* the operator works in the directory (spec section 6): a file is put there
OpAdd(s) ==
    /\ fsNow < MaxClock
    /\ \E f \in (Files \cup {Junk}) \ DOMAIN refs_dir[s].files :
         refs_dir' = [refs_dir EXCEPT ![s] = WithFile(@, f, fsNow + 1)]
    /\ fsNow' = fsNow + 1
    /\ lastChange' = [lastChange EXCEPT ![s] = "add"]
    /\ refAct' = <<"op_add", s>>
    /\ NotLoading

\* a file of the directory is touched (edited): it gets the current time as mtime
OpTouch(s) ==
    /\ fsNow < MaxClock
    /\ \E f \in DOMAIN refs_dir[s].files :
         refs_dir' = [refs_dir EXCEPT ![s] = WithFile(@, f, fsNow + 1)]
    /\ fsNow' = fsNow + 1
    /\ lastChange' = [lastChange EXCEPT ![s] = "touch"]
    /\ refAct' = <<"op_touch", s>>
    /\ NotLoading

\* a file of the directory is removed
OpRemove(s) ==
    /\ \E f \in DOMAIN refs_dir[s].files :
         refs_dir' = [refs_dir EXCEPT ![s] = WithoutFile(@, f)]
    /\ lastChange' = [lastChange EXCEPT ![s] = "remove"]
    /\ refAct' = <<"op_remove", s>>
    /\ NotLoading
    /\ UNCHANGED fsNow

\* the directory itself is removed, with what it holds
OpRemoveDir(s) ==
    /\ refs_dir[s].exists
    /\ refs_dir' = [refs_dir EXCEPT ![s] = NoDir]
    /\ lastChange' = [lastChange EXCEPT ![s] = "rmdir"]
    /\ refAct' = <<"op_rmdir", s>>
    /\ NotLoading
    /\ UNCHANGED fsNow

\* the directories the detector is constructed on: the first state has one
\* reference image, the directory of the second is missing
InitialDirs ==
    [s \in States |->
        IF s = priority[1] THEN WithFile(NoDir, 1, 1) ELSE NoDir]

\* ReferenceManager.__init__ (refs.py:15-20) and the load_all() of
\* EgmStateDetector.__init__ (detector.py:45)
RefInit ==
    /\ refs_dir = InitialDirs
    /\ fsNow = 1
    /\ LET rm == LoadAll([caches |-> [s \in {} |-> EmptyCache],
                          mtimes |-> [s \in {} |-> 0],
                          loaded |-> {}], InitialDirs)
       IN  /\ caches = rm.caches
           /\ mtimes = rm.mtimes
    /\ refAct = <<"load_all", "init">>
    /\ loaded = {}
    /\ lastChange = [s \in States |-> "none"]
    /\ cause = [s \in States |-> "none"]
    /\ loadMtime = [s \in States |-> GetDirMtime(InitialDirs[s])]
    /\ evalMatched = {}

(* ------------------------- Matcher.match_state ------------------------- *)
\* matcher.py:42-46: the smallest distance to a reference fingerprint,
\* float('inf') (here: none) being replaced by the first distance
RECURSIVE MinDistFrom(_, _, _)
MinDistFrom(dists, i, min_dist) ==
    IF i > Len(dists) THEN min_dist
    ELSE MinDistFrom(dists, i + 1,
                     IF dists[i] < min_dist THEN dists[i] ELSE min_dist)

MinDist(dists) == MinDistFrom(dists, 2, dists[1])

\* Contribution without the penalty: a negative ROI adds its raw distance
Contribution_NoPenalty(negative, min_dist, threshold) ==
    IF negative
    THEN IF min_dist <= threshold THEN min_dist ELSE 0
    ELSE min_dist

\* matcher.py:53-63: what one ROI adds to total_dist
Contribution(negative, min_dist, threshold) ==
    IF negative
    THEN IF min_dist <= threshold THEN Penalty ELSE 0
    ELSE min_dist

\* MatchRoi averaging over the ROIs that were found only: a positive ROI
\* beyond the threshold and a negative ROI that is absent add nothing to
\* the sum and nothing to the divisor
MatchRoi_FoundOnly(acc, roi, name, threshold) ==
    IF roi.dists = <<>>
    THEN [acc EXCEPT !.required_missed = @ \/ roi.required]
    ELSE LET min_dist == MinDist(roi.dists)
             found    == min_dist <= threshold
         IN  [ matched_rois    |-> IF ~roi.negative /\ found
                                   THEN Append(acc.matched_rois, name)
                                   ELSE acc.matched_rois,
               match_count     |-> IF ~roi.negative /\ found
                                   THEN acc.match_count + 1 ELSE acc.match_count,
               required_missed |-> \/ acc.required_missed
                                   \/ roi.required /\ (roi.negative <=> found),
               total_dist      |-> IF found
                                   THEN acc.total_dist
                                        + Contribution(roi.negative, min_dist, threshold)
                                   ELSE acc.total_dist,
               roi_count       |-> IF found THEN acc.roi_count + 1
                                   ELSE acc.roi_count ]

\* MatchRoi that skips a required ROI without references like a free one
MatchRoi_SkipRequired(acc, roi, name, threshold) ==
    IF roi.dists = <<>>
    THEN acc
    ELSE LET min_dist == MinDist(roi.dists)
             found    == min_dist <= threshold
         IN  [ matched_rois    |-> IF ~roi.negative /\ found
                                   THEN Append(acc.matched_rois, name)
                                   ELSE acc.matched_rois,
               match_count     |-> IF ~roi.negative /\ found
                                   THEN acc.match_count + 1 ELSE acc.match_count,
               required_missed |-> \/ acc.required_missed
                                   \/ roi.required /\ (roi.negative <=> found),
               total_dist      |-> acc.total_dist
                                   + Contribution(roi.negative, min_dist, threshold),
               roi_count       |-> acc.roi_count + 1 ]

\* matcher.py:26-73: the body of the loop for one ROI, on the accumulators
MatchRoi(acc, roi, name, threshold) ==
    IF roi.dists = <<>>
    THEN [acc EXCEPT !.required_missed = @ \/ roi.required]
    ELSE LET min_dist == MinDist(roi.dists)
             found    == min_dist <= threshold
         IN  [ matched_rois    |-> IF ~roi.negative /\ found
                                   THEN Append(acc.matched_rois, name)
                                   ELSE acc.matched_rois,
               match_count     |-> IF ~roi.negative /\ found
                                   THEN acc.match_count + 1 ELSE acc.match_count,
               required_missed |-> \/ acc.required_missed
                                   \/ roi.required /\ (roi.negative <=> found),
               total_dist      |-> acc.total_dist
                                   + Contribution(roi.negative, min_dist, threshold),
               roi_count       |-> acc.roi_count + 1 ]

\* matcher.py:19-24 and 26: the loop over the ROIs
RECURSIVE MatchLoop(_, _, _, _)
MatchLoop(rois, i, acc, threshold) ==
    IF i > Len(rois) THEN acc
    ELSE MatchLoop(rois, i + 1, MatchRoi(acc, rois[i], i, threshold), threshold)

\* an average distance is kept as <<total, count>>; a value that is no
\* quotient (-1.0, 999.0) as <<value, 1>>
AvgLeq(avg, threshold) == avg[1] <= threshold * avg[2]

\* IsMatch with the count floor alone
IsMatch_CountOnly(match_count, avg_dist, policy) ==
    match_count >= policy.min_match

\* matcher.py:87
IsMatch(match_count, avg_dist, policy) ==
    match_count >= policy.min_match /\ AvgLeq(avg_dist, policy.threshold)

\* matcher.py:14-95  match_state: (is_match, matched_rois, avg_dist)
MatchState(rois, policy) ==
    LET acc == MatchLoop(rois, 1,
                         [matched_rois |-> <<>>, total_dist |-> 0, match_count |-> 0,
                          roi_count |-> 0, required_missed |-> FALSE],
                         policy.threshold)
        avg_dist == IF acc.roi_count > 0
                    THEN <<acc.total_dist, acc.roi_count>> ELSE <<-1, 1>>
    IN  IF acc.required_missed
        THEN [ is_match     |-> FALSE,
               matched_rois |-> acc.matched_rois,
               avg_distance |-> IF avg_dist[1] >= 0 THEN avg_dist
                                ELSE <<NoRoiDistance, 1>> ]
        ELSE [ is_match     |-> IsMatch(acc.match_count, avg_dist, policy),
               matched_rois |-> acc.matched_rois,
               avg_distance |-> avg_dist ]

NoResult == [is_match |-> FALSE, matched_rois |-> <<>>, avg_distance |-> <<>>]

\* the call
MatchStateCall ==
    /\ m_result = NoResult
    /\ m_result' = MatchState(m_rois, m_policy)
    /\ UNCHANGED <<m_rois, m_policy>>

\* the thresholds and distances the inputs are drawn with
Thresholds == {0, 10}
DistValues == {0, 1, 10, 11}
\* reference lists: none, one fingerprint, two of which the first is far
DistLists ==
    {<<>>} \cup {<<d>> : d \in DistValues} \cup {<<11, d>> : d \in DistValues}
RoiInputs == [required : BOOLEAN, negative : BOOLEAN, dists : DistLists]
RECURSIVE RoiListsOf(_)
RoiListsOf(n) ==
    IF n = 0 THEN {<<>>}
    ELSE {Append(l, x) : l \in RoiListsOf(n - 1), x \in RoiInputs}
\* a positive and a negative ROI, each with one reference, at every distance
PosNegLists ==
    { <<[required |-> rp, negative |-> np, dists |-> <<p>>],
        [required |-> rn, negative |-> ~np, dists |-> <<n>>]>> :
        rp \in BOOLEAN, rn \in BOOLEAN, np \in BOOLEAN,
        p \in 0..MaxHashDist, n \in 0..MaxHashDist }
Policies == [min_match : 1..MaxMinMatch, threshold : Thresholds]

\* no call is under way
MatchInit ==
    /\ m_rois = <<>>
    /\ m_policy = [min_match |-> 1, threshold |-> 10]
    /\ m_result = NoResult

(* ------------------- a detection cycle on the references --------------- *)
\* the configuration of the states: the ROIs of RoiNames, with the flags
\* match_state reads, and one MatchPolicy
RoiFlags ==
    [s \in States |->
        IF s = priority[1]
        THEN <<[required |-> TRUE, negative |-> FALSE],
               [required |-> FALSE, negative |-> TRUE]>>
        ELSE <<[required |-> FALSE, negative |-> FALSE],
               [required |-> FALSE, negative |-> FALSE]>>]
StatePolicy == [min_match |-> 1, threshold |-> 10]

\* the distances of a frame's crop to the fingerprints of one ROI: near or
\* far from the first reference, far from the others
FrameDists == {0, 11}
DistsTo(refs, d) == [k \in 1..Len(refs) |-> IF k = 1 THEN d ELSE SetMax(FrameDists)]

\* detector.py:86-100 with matcher.py:32-33: one state is matched against the
\* cache c, the ROIs reading the lists of the state itself (no ROI is linked)
EvalState(c, s, fd) ==
    MatchState([i \in 1..Len(RoiNames) |->
                   [required |-> RoiFlags[s][i].required,
                    negative |-> RoiFlags[s][i].negative,
                    dists    |-> DistsTo(GetHashes(c, s, RoiNames[i]), fd[i])]],
               StatePolicy)

\* detector.py:63-100: a detection cycle that reads its frame: the reload of
\* line 67, then every state is matched against the cache
CycleMatch ==
    /\ UNCHANGED <<refs_dir, fsNow>>
    /\ Loaded(ReloadIfNeeded(RM, refs_dir))
    /\ lastChange' = [s \in States |->
                        IF s \in loaded' THEN "none" ELSE lastChange[s]]
    /\ refAct' = <<"reload_if_needed", "matched">>
    /\ \E fd \in [States -> [1..Len(RoiNames) -> FrameDists]] :
         evalMatched' = {s \in States : EvalState(caches', s, fd[s]).is_match}

(* ------------- _load_state_refs against a concurrent get_hashes -------- *)
\* refs.py:74  self.caches.get(state_name, {})
CacheOf(c, s) == IF s \in DOMAIN c THEN c[s] ELSE EmptyCache
\* refs.py:74  .get(roi_name, [])
ListOf(sc, r) == IF r \in DOMAIN sc THEN sc[r] ELSE <<>>

LdIdle == [pc |-> "idle", state |-> priority[1], mtime |-> 0, snap |-> NoDir,
           cache |-> EmptyCache, old |-> EmptyCache]
GhIdle == [pc |-> "idle", state |-> priority[1], seen |-> EmptyCache,
           during |-> FALSE, old |-> EmptyCache, new |-> EmptyCache,
           got |-> <<>>]

LdKeepsRest ==
    UNCHANGED <<refs_dir, fsNow, refAct, loaded, lastChange, cause, loadMtime,
                evalMatched, gh>>

\* refs.py:28-51: _load_state_refs is entered for state s (from load_all of
\* an endpoint): a missing directory empties the cache entry, an unchanged
\* mtime returns, otherwise the images of the directory are opened
LdBegin(s) ==
    /\ ld.pc = "idle"
    /\ LET d == refs_dir[s] IN
         IF ~d.exists
         THEN /\ caches' = Put(caches, s, EmptyCache)
              /\ UNCHANGED <<mtimes, ld>>
         ELSE IF MtimeOrNone(mtimes, s) = GetDirMtime(d)
              THEN UNCHANGED <<caches, mtimes, ld>>
              ELSE /\ ld' = [pc |-> "build", state |-> s, mtime |-> GetDirMtime(d),
                             snap |-> d, cache |-> EmptyCache,
                             old |-> CacheOf(caches, s)]
                   /\ UNCHANGED <<caches, mtimes>>
    /\ LdKeepsRest

\* the loop of LdRoi writing each list into the published cache entry
LdRoi_InPlace ==
    /\ ld.pc = "build"
    /\ Cardinality(DOMAIN ld.cache) < Len(RoiNames)
    /\ LET r == RoiNames[Cardinality(DOMAIN ld.cache) + 1]
           h == RoiHashes(Images(ld.snap), ld.snap) IN
         /\ ld' = [ld EXCEPT !.cache = Put(@, r, h)]
         /\ caches' = Put(caches, ld.state, Put(CacheOf(caches, ld.state), r, h))
    /\ UNCHANGED mtimes
    /\ LdKeepsRest

\* refs.py:55-61: the fingerprints of the next ROI go into the local state_cache
LdRoi ==
    /\ ld.pc = "build"
    /\ Cardinality(DOMAIN ld.cache) < Len(RoiNames)
    /\ LET r == RoiNames[Cardinality(DOMAIN ld.cache) + 1] IN
         ld' = [ld EXCEPT !.cache = Put(@, r, RoiHashes(Images(ld.snap), ld.snap))]
    /\ UNCHANGED <<caches, mtimes>>
    /\ LdKeepsRest

\* refs.py:63  self.caches[state_name] = state_cache
LdPublish ==
    /\ ld.pc = "build"
    /\ Cardinality(DOMAIN ld.cache) = Len(RoiNames)
    /\ caches' = Put(caches, ld.state, ld.cache)
    /\ ld' = [ld EXCEPT !.pc = "stamp"]
    /\ UNCHANGED mtimes
    /\ LdKeepsRest

\* refs.py:64  self.mtimes[state_name] = current_mtime
LdStamp ==
    /\ ld.pc = "stamp"
    /\ mtimes' = Put(mtimes, ld.state, ld.mtime)
    /\ ld' = LdIdle
    /\ UNCHANGED caches
    /\ LdKeepsRest

\* refs.py:74, first half: the matcher's thread takes the dict of state s
\* out of caches; during, old and new record the load it runs into
GhDict(s) ==
    /\ gh.pc = "idle"
    /\ gh' = [pc |-> "dict", state |-> s, seen |-> CacheOf(caches, s),
              during |-> (ld.pc # "idle" /\ ld.state = s),
              old |-> IF ld.pc # "idle" /\ ld.state = s THEN ld.old ELSE EmptyCache,
              new |-> IF ld.pc # "idle" /\ ld.state = s
                      THEN StateCache(ld.snap) ELSE EmptyCache,
              got |-> <<>>]
    /\ UNCHANGED <<refVars, ld>>

\* refs.py:74, second half: the list of one ROI is taken out of that dict
GhList(r) ==
    /\ gh.pc = "dict"
    /\ gh' = [gh EXCEPT !.pc = "idle", !.got = ListOf(gh.seen, r)]
    /\ UNCHANGED <<refVars, ld>>

\* the directory of state s changes while the threads run: the operator or
\* an endpoint (api.py:230-237, 275-279) writes a file or removes one
DirWrite(s) ==
    /\ fsNow < MaxClock
    /\ \E f \in Files \cup {Junk} :
         refs_dir' = [refs_dir EXCEPT ![s] = WithFile(@, f, fsNow + 1)]
    /\ fsNow' = fsNow + 1
    /\ UNCHANGED <<caches, mtimes, refAct, loaded, lastChange, cause, loadMtime,
                   evalMatched, ld, gh>>

DirRemove(s) ==
    /\ \E f \in DOMAIN refs_dir[s].files :
         refs_dir' = [refs_dir EXCEPT ![s] = WithoutFile(@, f)]
    /\ UNCHANGED <<fsNow, caches, mtimes, refAct, loaded, lastChange, cause,
                   loadMtime, evalMatched, ld, gh>>

LoadInit == ld = LdIdle /\ gh = GhIdle

(* --------------- _write_status against a concurrent get_state ---------- *)
\* the number of pieces in which the content of a file (the JSON text of
\* the status, the JPEG of a frame) reaches the file
MaxChunks == 2

\* the states a result handed to _write_status can have (detector.py:143-162)
ResultStates == States \cup {Other}

NoFile == [state |-> "NOFILE", n |-> 0]
Complete(file) == file # NoFile /\ file.n = MaxChunks

\* a _write_status that writes the status path itself
WriteTarget_Path == "path"
\* detector.py:168  tmp = path + ".tmp": the file the text is written to
WriteTarget == "tmp"

\* os.replace(a, b)
Replace(fs, a, b) ==
    IF a = b THEN fs ELSE [fs EXCEPT ![b] = fs[a], ![a] = NoFile]

WsIdle == [pc |-> "idle", res |-> Other]
GsIdle == [pc |-> "idle", file |-> NoFile, answer |-> "none"]

\* detector.py:169  open(tmp, "w"): the file is created or truncated
WsOpen ==
    /\ ws.pc = "idle"
    /\ \E res \in ResultStates :
         /\ status_fs' = [status_fs EXCEPT ![WriteTarget] = [state |-> res, n |-> 0]]
         /\ ws' = [pc |-> "writing", res |-> res]
         /\ handed' = handed \cup {res}
    /\ UNCHANGED gs

\* detector.py:170  f.write: one more piece of the text is in the file
WsWrite ==
    /\ ws.pc = "writing"
    /\ status_fs[WriteTarget].n < MaxChunks
    /\ status_fs' = [status_fs EXCEPT ![WriteTarget].n = @ + 1]
    /\ UNCHANGED <<ws, gs, handed>>

\* detector.py:173-174: the write, the close or the rename raises and the
\* exception is swallowed; the files stay as they are
WsFail ==
    /\ ws.pc = "writing"
    /\ ws' = WsIdle
    /\ UNCHANGED <<status_fs, gs, handed>>

\* detector.py:171  os.replace(tmp, path), once the text is written and the
\* file closed
WsReplace ==
    /\ ws.pc = "writing"
    /\ status_fs[WriteTarget].n = MaxChunks
    /\ status_fs' = Replace(status_fs, WriteTarget, "path")
    /\ ws' = WsIdle
    /\ UNCHANGED <<gs, handed>>

\* api.py:141-142  open(path, "r"): a missing file raises and the answer is
\* the error of line 145; an opened file keeps its content whatever is
\* renamed over its path afterwards
GsOpen ==
    /\ gs.pc = "idle"
    /\ gs' = IF status_fs["path"] = NoFile
             THEN [pc |-> "idle", file |-> NoFile, answer |-> "error"]
             ELSE [pc |-> "open", file |-> status_fs["path"], answer |-> "none"]
    /\ UNCHANGED <<status_fs, ws, handed>>

\* api.py:143-145  json.load(f): the state of a complete text, the error
\* answer for a text that does not parse
GsLoad ==
    /\ gs.pc = "open"
    /\ gs' = [gs EXCEPT !.pc = "idle",
                        !.answer = IF Complete(gs.file) THEN gs.file.state
                                   ELSE "error"]
    /\ UNCHANGED <<status_fs, ws, handed>>

StatInit ==
    /\ status_fs = [f \in {"path", "tmp"} |-> NoFile]
    /\ ws = WsIdle
    /\ gs = GsIdle
    /\ handed = {}

(* --------------- the frame file: ffmpeg writes, step() reads ----------- *)
NoFrame == [id |-> 0, n |-> 0]

\* capture.py:80-98: ffmpeg runs with "-update 1 -y" on output_path and
\* overwrites that file frame after frame; it opens the file (which
\* empties it) for the next frame.  A process started after a stop does the
\* same on a file its predecessor may have left unfinished.
FrameTruncate ==
    /\ frames_written < MaxFrames
    /\ frames_written' = frames_written + 1
    /\ frame_file' = [id |-> frames_written + 1, n |-> 0]
    /\ UNCHANGED fr

\* one more piece of the frame reaches the file
FrameWrite ==
    /\ frame_file # NoFrame
    /\ frame_file.n < MaxChunks
    /\ frame_file' = [frame_file EXCEPT !.n = @ + 1]
    /\ UNCHANGED <<frames_written, fr>>

\* a decoder that accepts every text whose beginning is there
Decodes_Lenient(data) == data # NoFrame /\ data.n >= 1
\* detector.py:58-60: Image.open and img.load() on the bytes read: a text
\* that is not all there raises
Decodes(data) == data # NoFrame /\ data.n = MaxChunks

\* detector.py:47-61  _read_snapshot_image on the file as it is: a missing
\* file raises, the whole file is read with one f.read(), then decoded
ReadSnapshotImage(file) ==
    IF file = NoFrame THEN [ok |-> FALSE, data |-> NoFrame]
    ELSE [ok |-> Decodes(file), data |-> file]

\* detector.py:72-74: step() calls _read_snapshot_image once
ReadAttempts == 1

FrIdle == [outcome |-> "none", data |-> NoFrame, img |-> NoFrame, attempts |-> 0]

\* detector.py:63-100: the frame read of one detection cycle: a read that
\* raises ends the cycle with UNKNOWN, otherwise the image goes to match_state
CycleFrame ==
    /\ LET r == ReadSnapshotImage(frame_file) IN
         fr' = [outcome  |-> IF r.ok THEN "matched" ELSE "readfail",
                data     |-> r.data,
                img      |-> IF r.ok THEN r.data ELSE NoFrame,
                attempts |-> ReadAttempts]
    /\ UNCHANGED <<frame_file, frames_written>>

FrameInit ==
    /\ frame_file = NoFrame
    /\ frames_written = 0
    /\ fr = FrIdle

(* ------------- step(): the evaluation of the configured states --------- *)
\* the state names a configuration may use
StateNames == {"SELECT", "PLAYING", "NORMAL"}

\* DetectorConfigWrapper.priority is any list of names; nothing relates it to
\* the keys of states
PriorityLists == UNION {[1..n -> StateNames] : n \in 0..MaxPrio}

\* matches_summary: Dict[str, MatchResult] = {}
NoMatches == [s \in {} |-> FALSE]

\* a loop that stops at the first state that matches
RECURSIVE MatchAll_FirstWins(_, _, _, _)
MatchAll_FirstWins(prio, configured, is_match, summary) ==
    IF prio = <<>> THEN summary
    ELSE LET state_name == Head(prio)
         IN  IF state_name \notin configured
             THEN MatchAll_FirstWins(Tail(prio), configured, is_match, summary)
             ELSE LET added == [s \in DOMAIN summary \cup {state_name} |->
                                  IF s = state_name THEN is_match[s] ELSE summary[s]]
                  IN  IF is_match[state_name] THEN added
                      ELSE MatchAll_FirstWins(Tail(prio), configured, is_match, added)
\* detector.py:86-100: for state_name in det_cfg.priority, skip the names
\* states.get() does not know, record the MatchResult of the others
RECURSIVE MatchAll(_, _, _, _)
MatchAll(prio, configured, is_match, summary) ==
    IF prio = <<>> THEN summary
    ELSE LET state_name == Head(prio)
         IN  IF state_name \notin configured
             THEN MatchAll(Tail(prio), configured, is_match, summary)
             ELSE MatchAll(Tail(prio), configured, is_match,
                           [s \in DOMAIN summary \cup {state_name} |->
                              IF s = state_name THEN is_match[s] ELSE summary[s]])

\* one cycle whose frame was read, up to the matches of its result
CycleEvaluate ==
    /\ \E is_match \in [StateNames -> BOOLEAN] :
         matches_summary' = MatchAll(det_priority, det_states, is_match, NoMatches)
    /\ cycle_done' = TRUE
    /\ UNCHANGED <<det_states, det_priority>>

\* the configuration the other specifications run under
CfgInit ==
    /\ det_states = States
    /\ det_priority = priority
    /\ matches_summary = NoMatches
    /\ cycle_done = FALSE

(* ------------------------- lifespan: shutdown -------------------------- *)
\* api.py:52: stop_event.set(); the first join begins (api.py:53-54)
LifeShutdown ==
    /\ lifePc = "serving"
    /\ Shutdown
    /\ lifePc' = "join_detect"
    /\ joinDeadline' = now + JoinTimeout
    /\ UNCHANGED stopDeadline

\* a join that waits for the thread however long it takes
JoinReturns_Untimed(finished, t_now, deadline) == finished
\* Thread.join(timeout=2.0) returns when the thread has ended or the timeout
\* has passed, whichever comes first
JoinReturns(finished, t_now, deadline) == finished \/ t_now >= deadline

\* api.py:53-56: detect_thread.join(timeout=2.0) returns, snap_thread.join
\* (timeout=2.0) begins
LifeJoinDetect ==
    /\ lifePc = "join_detect"
    /\ JoinReturns(detLoop # "running", now, joinDeadline)
    /\ lifePc' = "join_snap"
    /\ joinDeadline' = now + JoinTimeout
    /\ UNCHANGED stopDeadline

\* api.py:55-56: snap_thread.join(timeout=2.0) returns and lifespan ends
LifeJoinSnap ==
    /\ lifePc = "join_snap"
    /\ JoinReturns(snapPc \in {"done", "returned"}, now, joinDeadline)
    /\ lifePc' = "completed"
    /\ joinDeadline' = 0
    /\ UNCHANGED stopDeadline

\* api.py:126-127 with capture.py:132-133: snapshot_loop calls stop(), which
\* terminates the process and waits for it, 5 s at most
LifeCleanup ==
    /\ SnapCleanup
    /\ stopDeadline' = now + StopWait
    /\ UNCHANGED <<lifePc, joinDeadline>>

\* the threads that have something to do do it before the clock moves on:
\* the detection loop sees the event at once (api.py:78, 86), snapshot_loop
\* is held up only by stop_event.wait(5.0) while the event is not set, by
\* the time.sleep of ensure_running and by the wait of stop()
DetBlocked == detLoop # "running" \/ ~stop_event
SnapBlocked ==
    \/ snapPc \in {"done", "returned"}
    \/ snapPc = "wait" /\ ~stop_event
    \/ pc["mon"] = "er_sleep" /\ now < wake["mon"]
    \/ pc["mon"] = "sp_wait" /\ now < stopDeadline

\* a second passes while the threads are blocked or gone
LifeTick ==
    /\ DetBlocked /\ SnapBlocked
    /\ Tick

LifeInit ==
    /\ lifePc = "serving"
    /\ joinDeadline = 0
    /\ stopDeadline = 0

(* ------------- StateMachine.update on perturbed sequences -------------- *)
\* what update() is fed: a configured state or OTHER
Candidates == States \cup {Other}
CandidateSeqs == UNION {[1..n -> Candidates] : n \in 0..MaxSeq}

\* StateMachine.__init__ (state_machine.py:5-11)
NewMachine ==
    [current_state |-> Other, streaks |-> EmptyStreaks, none_streak |-> 0]

\* the sequence without its i-th input
DropAt(seq, i) ==
    [k \in 1..(Len(seq) - 1) |-> IF k < i THEN seq[k] ELSE seq[k + 1]]
\* the sequence with its i-th and (i+1)-th inputs swapped
SwapAt(seq, i) ==
    [k \in 1..Len(seq) |->
        IF k = i THEN seq[i + 1] ELSE IF k = i + 1 THEN seq[i] ELSE seq[k]]
Perturbed(seq, kind, i) ==
    IF kind = "drop" THEN DropAt(seq, i) ELSE SwapAt(seq, i)

\* update() called on each input in turn: the states the machine was in and
\* the transitions <<from, to>> it made
RECURSIVE Run(_, _, _, _)
Run(sm, seq, visited, transitions) ==
    IF seq = <<>>
    THEN [visited |-> visited, transitions |-> transitions,
          final |-> sm.current_state]
    ELSE LET next == Update(sm, Head(seq), confirm_frames, drop_frames)
         IN  Run(next, Tail(seq), visited \cup {next.current_state},
                 IF next.current_state # sm.current_state
                 THEN transitions \cup {<<sm.current_state, next.current_state>>}
                 ELSE transitions)

RunOf(seq) == Run(NewMachine, seq, {Other}, {})

NoRuns == [done |-> FALSE, orig |-> RunOf(<<>>), pert |-> RunOf(<<>>)]

\* both runs
RunBoth ==
    /\ ~p_runs.done
    /\ p_runs' = [done |-> TRUE,
                  orig |-> RunOf(p_seq),
                  pert |-> RunOf(Perturbed(p_seq, p_kind, p_idx))]
    /\ UNCHANGED <<p_seq, p_kind, p_idx>>

\* the sequence the other specifications leave untouched
PerturbInit ==
    /\ p_seq = <<>>
    /\ p_kind = "drop"
    /\ p_idx = 0
    /\ p_runs = NoRuns

(* ---------------------- load_config: linked ROIs ---------------------- *)
\* the keys of the states dict in the order the dict iterates them
StateOrders ==
    {o \in UNION {[1..n -> StateNames] : n \in 1..Cardinality(StateNames)} :
        \A i, j \in DOMAIN o : o[i] = o[j] => i = j}
Configured(order) == {order[i] : i \in DOMAIN order}

\* a state that has no ROI of the name
AbsentRoi == [x |-> "ABSENT", ref_state |-> "NONE"]
\* the ROI of a state: x is "NONE" when the coordinates are missing, else
\* the name of the state whose configuration wrote them; ref_state is the
\* state the ROI is linked to, or "NONE"
RoiEntries ==
    {AbsentRoi} \cup [x : {"NONE"} \cup StateNames,
                      ref_state : {"NONE"} \cup StateNames]

\* config.py:22: a linked ROI
IsLinked(roi) == roi # AbsentRoi /\ roi.ref_state # "NONE" /\ roi.x = "NONE"

\* config.py:19-49: the loop over states.items(), the ROI objects changed in
\* place; ok is FALSE when a ValueError was raised
RECURSIVE ResolveFrom(_, _, _)
ResolveFrom(order, rois, i) ==
    IF i > Len(order) THEN [ok |-> TRUE, rois |-> rois]
    ELSE LET state_name == order[i]
             roi == rois[state_name]
         IN  IF ~IsLinked(roi) THEN ResolveFrom(order, rois, i + 1)
             ELSE IF roi.ref_state \notin Configured(order)
                  THEN [ok |-> FALSE, rois |-> rois]
                  ELSE LET target_roi == rois[roi.ref_state]
                       IN  IF target_roi = AbsentRoi \/ target_roi.x = "NONE"
                           THEN [ok |-> FALSE, rois |-> rois]
                           ELSE ResolveFrom(order,
                                            [rois EXCEPT ![state_name].x = target_roi.x],
                                            i + 1)

NoLoad == [done |-> FALSE, ok |-> FALSE, rois |-> [s \in StateNames |-> AbsentRoi]]

\* load_config called once
LoadConfigCall ==
    /\ ~lk_result.done
    /\ LET r == ResolveFrom(lk_order, lk_rois, 1)
       IN  lk_result' = [done |-> TRUE, ok |-> r.ok, rois |-> r.rois]
    /\ UNCHANGED <<lk_order, lk_rois>>

\* the configuration the other specifications leave untouched
LinkInit ==
    /\ lk_order = priority
    /\ lk_rois = [s \in StateNames |-> AbsentRoi]
    /\ lk_result = NoLoad

(* ----------------------- step(): the order of a cycle ------------------ *)
CyIdle == [pc |-> "idle", i |-> 0, steps |-> <<>>,
           checked |-> [s \in {} |-> EmptyCache],
           used |-> [s \in {} |-> EmptyCache]]

\* detector.py:67: reload_if_needed()
CyReload ==
    /\ cy.pc = "idle"
    /\ UNCHANGED <<refs_dir, fsNow>>
    /\ Loaded(ReloadIfNeeded(RM, refs_dir))
    /\ lastChange' = [s \in States |->
                        IF s \in loaded' THEN "none" ELSE lastChange[s]]
    /\ refAct' = <<"reload_if_needed", "step">>
    /\ evalMatched' = {}
    /\ cy' = [CyIdle EXCEPT !.pc = "read", !.steps = <<"reload_if_needed">>,
                            !.checked = caches']

\* detector.py:72-81: the frame is read; the cycle ends here when that fails
CyRead ==
    /\ cy.pc = "read"
    /\ \E ok \in BOOLEAN :
         cy' = [cy EXCEPT !.pc = IF ok THEN "match" ELSE "idle",
                          !.i = IF ok THEN 1 ELSE 0,
                          !.steps = Append(@, "read")]
    /\ UNCHANGED refVars

\* detector.py:86-100: the next state of the priority list is matched; its
\* get_hashes calls read self.caches as it is now (refs.py:73-74)
CyMatch ==
    /\ cy.pc = "match"
    /\ LET state_name == priority[cy.i]
       IN  cy' = [cy EXCEPT
                    !.pc = IF cy.i = Len(priority) THEN "idle" ELSE "match",
                    !.i = IF cy.i = Len(priority) THEN 0 ELSE cy.i + 1,
                    !.steps = Append(@, "match"),
                    !.used = [s \in DOMAIN cy.used \cup {state_name} |->
                                IF s = state_name
                                THEN (IF s \in DOMAIN caches THEN caches[s]
                                      ELSE EmptyCache)
                                ELSE cy.used[s]]]
    /\ UNCHANGED refVars

CyInit == cy = CyIdle

(* --------------------------- specifications ---------------------------- *)
Init ==
    /\ DetInit /\ CapInit /\ SnapInit /\ RefInit /\ MatchInit
    /\ LoadInit /\ StatInit /\ FrameInit /\ CfgInit /\ LifeInit /\ PerturbInit /\ LinkInit /\ CyInit

\* the detector, called by detection_loop
Next ==
    \/ StepReadFail /\ UNCHANGED <<capVars, snapVars, refVars, matchVars, loadVars, statVars, frameVars, cfgVars, lifeVars, perturbVars, linkVars, cycleVars>>
    \/ StepOk /\ UNCHANGED <<capVars, snapVars, refVars, matchVars, loadVars, statVars, frameVars, cfgVars, lifeVars, perturbVars, linkVars, cycleVars>>
    \/ StepRaise /\ UNCHANGED <<capVars, snapVars, refVars, matchVars, loadVars, statVars, frameVars, cfgVars, lifeVars, perturbVars, linkVars, cycleVars>>
    \/ Shutdown /\ UNCHANGED <<capVars, snapVars, refVars, matchVars, loadVars, statVars, frameVars, cfgVars, lifeVars, perturbVars, linkVars, cycleVars>>
    \/ DetLoopExit /\ UNCHANGED <<capVars, snapVars, refVars, matchVars, loadVars, statVars, frameVars, cfgVars, lifeVars, perturbVars, linkVars, cycleVars>>

Spec == Init /\ [][Next]_vars

\* one PersistentCapturer: thread "mon" calls start() and ensure_running(),
\* thread "ext" calls stop()
NextCap ==
    \/ Start("mon") /\ UNCHANGED <<detVars, snapVars, refVars, matchVars, loadVars, statVars, frameVars, cfgVars, lifeVars, perturbVars, linkVars, cycleVars>>
    \/ ErCheck("mon") /\ UNCHANGED <<detVars, snapVars, refVars, matchVars, loadVars, statVars, frameVars, cfgVars, lifeVars, perturbVars, linkVars, cycleVars>>
    \/ ErIsRunning("mon") /\ UNCHANGED <<detVars, snapVars, refVars, matchVars, loadVars, statVars, frameVars, cfgVars, lifeVars, perturbVars, linkVars, cycleVars>>
    \/ ErClean("mon") /\ UNCHANGED <<detVars, snapVars, refVars, matchVars, loadVars, statVars, frameVars, cfgVars, lifeVars, perturbVars, linkVars, cycleVars>>
    \/ ErTime("mon") /\ UNCHANGED <<detVars, snapVars, refVars, matchVars, loadVars, statVars, frameVars, cfgVars, lifeVars, perturbVars, linkVars, cycleVars>>
    \/ ErWake("mon") /\ UNCHANGED <<detVars, snapVars, refVars, matchVars, loadVars, statVars, frameVars, cfgVars, lifeVars, perturbVars, linkVars, cycleVars>>
    \/ ErStart("mon") /\ UNCHANGED <<detVars, snapVars, refVars, matchVars, loadVars, statVars, frameVars, cfgVars, lifeVars, perturbVars, linkVars, cycleVars>>
    \/ StopBegin("ext") /\ UNCHANGED <<detVars, snapVars, refVars, matchVars, loadVars, statVars, frameVars, cfgVars, lifeVars, perturbVars, linkVars, cycleVars>>
    \/ StopEnd("ext") /\ UNCHANGED <<detVars, snapVars, refVars, matchVars, loadVars, statVars, frameVars, cfgVars, lifeVars, perturbVars, linkVars, cycleVars>>
    \/ ProcExit /\ UNCHANGED <<detVars, snapVars, refVars, matchVars, loadVars, statVars, frameVars, cfgVars, lifeVars, perturbVars, linkVars, cycleVars>>
    \/ Tick /\ UNCHANGED <<detVars, snapVars, refVars, matchVars, loadVars, statVars, frameVars, cfgVars, lifeVars, perturbVars, linkVars, cycleVars>>

SpecCap == Init /\ [][NextCap]_vars

\* one PersistentCapturer whose start(), stop(), ensure_running() and
\* is_running() are called from either of two threads
NextMulti ==
    \/ \E t \in Threads : Start(t) /\ UNCHANGED <<detVars, snapVars, refVars, matchVars, loadVars, statVars, frameVars, cfgVars, lifeVars, perturbVars, linkVars, cycleVars>>
    \/ \E t \in Threads : StopBegin(t) /\ UNCHANGED <<detVars, snapVars, refVars, matchVars, loadVars, statVars, frameVars, cfgVars, lifeVars, perturbVars, linkVars, cycleVars>>
    \/ \E t \in Threads : StopEnd(t) /\ UNCHANGED <<detVars, snapVars, refVars, matchVars, loadVars, statVars, frameVars, cfgVars, lifeVars, perturbVars, linkVars, cycleVars>>
    \/ \E t \in Threads : IsRunning(t) /\ UNCHANGED <<detVars, snapVars, refVars, matchVars, loadVars, statVars, frameVars, cfgVars, lifeVars, perturbVars, linkVars, cycleVars>>
    \/ \E t \in Threads : ErCheck(t) /\ UNCHANGED <<detVars, snapVars, refVars, matchVars, loadVars, statVars, frameVars, cfgVars, lifeVars, perturbVars, linkVars, cycleVars>>
    \/ \E t \in Threads : ErIsRunning(t) /\ UNCHANGED <<detVars, snapVars, refVars, matchVars, loadVars, statVars, frameVars, cfgVars, lifeVars, perturbVars, linkVars, cycleVars>>
    \/ \E t \in Threads : ErClean(t) /\ UNCHANGED <<detVars, snapVars, refVars, matchVars, loadVars, statVars, frameVars, cfgVars, lifeVars, perturbVars, linkVars, cycleVars>>
    \/ \E t \in Threads : ErCleanBlock(t) /\ UNCHANGED <<detVars, snapVars, refVars, matchVars, loadVars, statVars, frameVars, cfgVars, lifeVars, perturbVars, linkVars, cycleVars>>
    \/ \E t \in Threads : ErCleanUnblock(t) /\ UNCHANGED <<detVars, snapVars, refVars, matchVars, loadVars, statVars, frameVars, cfgVars, lifeVars, perturbVars, linkVars, cycleVars>>
    \/ \E t \in Threads : ErTime(t) /\ UNCHANGED <<detVars, snapVars, refVars, matchVars, loadVars, statVars, frameVars, cfgVars, lifeVars, perturbVars, linkVars, cycleVars>>
    \/ \E t \in Threads : ErWake(t) /\ UNCHANGED <<detVars, snapVars, refVars, matchVars, loadVars, statVars, frameVars, cfgVars, lifeVars, perturbVars, linkVars, cycleVars>>
    \/ \E t \in Threads : ErStart(t) /\ UNCHANGED <<detVars, snapVars, refVars, matchVars, loadVars, statVars, frameVars, cfgVars, lifeVars, perturbVars, linkVars, cycleVars>>
    \/ ProcExit /\ UNCHANGED <<detVars, snapVars, refVars, matchVars, loadVars, statVars, frameVars, cfgVars, lifeVars, perturbVars, linkVars, cycleVars>>
    \/ TickFloor /\ UNCHANGED <<detVars, snapVars, refVars, matchVars, loadVars, statVars, frameVars, cfgVars, lifeVars, perturbVars, linkVars, cycleVars>>

SpecMulti == Init /\ [][NextMulti]_vars

\* the capturer as snapshot_loop drives it, with the shutdown of lifespan
NextSnap ==
    \/ SnapFirstStart /\ UNCHANGED <<detVars, refVars, matchVars, loadVars, statVars, frameVars, cfgVars, lifeVars, perturbVars, linkVars, cycleVars>>
    \/ SnapEnsure /\ UNCHANGED <<detVars, refVars, matchVars, loadVars, statVars, frameVars, cfgVars, lifeVars, perturbVars, linkVars, cycleVars>>
    \/ ErIsRunning("mon") /\ UNCHANGED <<detVars, snapVars, refVars, matchVars, loadVars, statVars, frameVars, cfgVars, lifeVars, perturbVars, linkVars, cycleVars>>
    \/ ErClean("mon") /\ UNCHANGED <<detVars, snapVars, refVars, matchVars, loadVars, statVars, frameVars, cfgVars, lifeVars, perturbVars, linkVars, cycleVars>>
    \/ ErTime("mon") /\ UNCHANGED <<detVars, snapVars, refVars, matchVars, loadVars, statVars, frameVars, cfgVars, lifeVars, perturbVars, linkVars, cycleVars>>
    \/ ErWake("mon") /\ UNCHANGED <<detVars, snapVars, refVars, matchVars, loadVars, statVars, frameVars, cfgVars, lifeVars, perturbVars, linkVars, cycleVars>>
    \/ ErStart("mon") /\ UNCHANGED <<detVars, snapVars, refVars, matchVars, loadVars, statVars, frameVars, cfgVars, lifeVars, perturbVars, linkVars, cycleVars>>
    \/ SnapErReturned /\ UNCHANGED <<detVars, refVars, matchVars, loadVars, statVars, frameVars, cfgVars, lifeVars, perturbVars, linkVars, cycleVars>>
    \/ SnapWaitDone /\ UNCHANGED <<detVars, refVars, matchVars, loadVars, statVars, frameVars, cfgVars, lifeVars, perturbVars, linkVars, cycleVars>>
    \/ SnapCleanup /\ UNCHANGED <<detVars, refVars, matchVars, loadVars, statVars, frameVars, cfgVars, lifeVars, perturbVars, linkVars, cycleVars>>
    \/ StopEnd("mon") /\ UNCHANGED <<detVars, snapVars, refVars, matchVars, loadVars, statVars, frameVars, cfgVars, lifeVars, perturbVars, linkVars, cycleVars>>
    \/ SnapDone /\ UNCHANGED <<detVars, refVars, matchVars, loadVars, statVars, frameVars, cfgVars, lifeVars, perturbVars, linkVars, cycleVars>>
    \/ ProcExit /\ UNCHANGED <<detVars, snapVars, refVars, matchVars, loadVars, statVars, frameVars, cfgVars, lifeVars, perturbVars, linkVars, cycleVars>>
    \/ Tick /\ UNCHANGED <<detVars, snapVars, refVars, matchVars, loadVars, statVars, frameVars, cfgVars, lifeVars, perturbVars, linkVars, cycleVars>>
    \/ Shutdown /\ UNCHANGED <<capVars, snapVars, refVars, matchVars, loadVars, statVars, frameVars, cfgVars, lifeVars, perturbVars, linkVars, cycleVars>>

SpecSnap == Init /\ [][NextSnap]_vars

\* the ReferenceManager of the detector: the detection cycle's reload, the
\* reference operations of the API and the operator's work in the directories
NextRef ==
    \/ CycleReload /\ UNCHANGED <<detVars, capVars, snapVars, matchVars, loadVars, statVars, frameVars, cfgVars, lifeVars, perturbVars, linkVars, cycleVars>>
    \/ \E s \in States : AddRef(s) /\ UNCHANGED <<detVars, capVars, snapVars, matchVars, loadVars, statVars, frameVars, cfgVars, lifeVars, perturbVars, linkVars, cycleVars>>
    \/ \E s \in States : DeleteRef(s) /\ UNCHANGED <<detVars, capVars, snapVars, matchVars, loadVars, statVars, frameVars, cfgVars, lifeVars, perturbVars, linkVars, cycleVars>>
    \/ \E s \in States : OpAdd(s) /\ UNCHANGED <<detVars, capVars, snapVars, matchVars, loadVars, statVars, frameVars, cfgVars, lifeVars, perturbVars, linkVars, cycleVars>>
    \/ \E s \in States : OpTouch(s) /\ UNCHANGED <<detVars, capVars, snapVars, matchVars, loadVars, statVars, frameVars, cfgVars, lifeVars, perturbVars, linkVars, cycleVars>>
    \/ \E s \in States : OpRemove(s) /\ UNCHANGED <<detVars, capVars, snapVars, matchVars, loadVars, statVars, frameVars, cfgVars, lifeVars, perturbVars, linkVars, cycleVars>>
    \/ \E s \in States : OpRemoveDir(s) /\ UNCHANGED <<detVars, capVars, snapVars, matchVars, loadVars, statVars, frameVars, cfgVars, lifeVars, perturbVars, linkVars, cycleVars>>

SpecRef == Init /\ [][NextRef]_vars

\* the detection cycles that match their frame, with an operator working
\* in the reference directories
NextEval ==
    \/ CycleMatch /\ UNCHANGED <<detVars, capVars, snapVars, matchVars, loadVars, statVars, frameVars, cfgVars, lifeVars, perturbVars, linkVars, cycleVars>>
    \/ \E s \in States : OpAdd(s) /\ UNCHANGED <<detVars, capVars, snapVars, matchVars, loadVars, statVars, frameVars, cfgVars, lifeVars, perturbVars, linkVars, cycleVars>>
    \/ \E s \in States : OpRemove(s) /\ UNCHANGED <<detVars, capVars, snapVars, matchVars, loadVars, statVars, frameVars, cfgVars, lifeVars, perturbVars, linkVars, cycleVars>>
    \/ \E s \in States : OpRemoveDir(s) /\ UNCHANGED <<detVars, capVars, snapVars, matchVars, loadVars, statVars, frameVars, cfgVars, lifeVars, perturbVars, linkVars, cycleVars>>

SpecEval == Init /\ [][NextEval]_vars

\* match_state called once on every input of the bounded sets
InitMatch ==
    /\ DetInit /\ CapInit /\ SnapInit /\ RefInit /\ LoadInit /\ StatInit
    /\ FrameInit /\ CfgInit /\ LifeInit /\ PerturbInit /\ LinkInit /\ CyInit
    /\ m_rois \in (UNION {RoiListsOf(n) : n \in 0..MaxRois}) \cup PosNegLists
    /\ m_policy \in Policies
    /\ m_result = NoResult

NextMatch ==
    MatchStateCall /\ UNCHANGED <<detVars, capVars, snapVars, refVars, loadVars, statVars, frameVars, cfgVars, lifeVars, perturbVars, linkVars, cycleVars>>

SpecMatch == InitMatch /\ [][NextMatch]_vars

\* _load_state_refs in one thread, get_hashes in another, while the
\* directory of the first state changes (the directory of the second is
\* missing, as in InitialDirs)
NextLoad ==
    \/ \E s \in States : LdBegin(s) /\ UNCHANGED <<detVars, capVars, snapVars, matchVars, statVars, frameVars, cfgVars, lifeVars, perturbVars, linkVars, cycleVars>>
    \/ LdRoi /\ UNCHANGED <<detVars, capVars, snapVars, matchVars, statVars, frameVars, cfgVars, lifeVars, perturbVars, linkVars, cycleVars>>
    \/ LdPublish /\ UNCHANGED <<detVars, capVars, snapVars, matchVars, statVars, frameVars, cfgVars, lifeVars, perturbVars, linkVars, cycleVars>>
    \/ LdStamp /\ UNCHANGED <<detVars, capVars, snapVars, matchVars, statVars, frameVars, cfgVars, lifeVars, perturbVars, linkVars, cycleVars>>
    \/ \E s \in States : GhDict(s) /\ UNCHANGED <<detVars, capVars, snapVars, matchVars, statVars, frameVars, cfgVars, lifeVars, perturbVars, linkVars, cycleVars>>
    \/ \E r \in RoiSet : GhList(r) /\ UNCHANGED <<detVars, capVars, snapVars, matchVars, statVars, frameVars, cfgVars, lifeVars, perturbVars, linkVars, cycleVars>>
    \/ DirWrite(priority[1]) /\ UNCHANGED <<detVars, capVars, snapVars, matchVars, statVars, frameVars, cfgVars, lifeVars, perturbVars, linkVars, cycleVars>>
    \/ DirRemove(priority[1]) /\ UNCHANGED <<detVars, capVars, snapVars, matchVars, statVars, frameVars, cfgVars, lifeVars, perturbVars, linkVars, cycleVars>>

SpecLoad == Init /\ [][NextLoad]_vars

\* _write_status in the detection thread, get_state in another
NextStatus ==
    \/ WsOpen /\ UNCHANGED <<detVars, capVars, snapVars, refVars, matchVars, loadVars, frameVars, cfgVars, lifeVars, perturbVars, linkVars, cycleVars>>
    \/ WsWrite /\ UNCHANGED <<detVars, capVars, snapVars, refVars, matchVars, loadVars, frameVars, cfgVars, lifeVars, perturbVars, linkVars, cycleVars>>
    \/ WsFail /\ UNCHANGED <<detVars, capVars, snapVars, refVars, matchVars, loadVars, frameVars, cfgVars, lifeVars, perturbVars, linkVars, cycleVars>>
    \/ WsReplace /\ UNCHANGED <<detVars, capVars, snapVars, refVars, matchVars, loadVars, frameVars, cfgVars, lifeVars, perturbVars, linkVars, cycleVars>>
    \/ GsOpen /\ UNCHANGED <<detVars, capVars, snapVars, refVars, matchVars, loadVars, frameVars, cfgVars, lifeVars, perturbVars, linkVars, cycleVars>>
    \/ GsLoad /\ UNCHANGED <<detVars, capVars, snapVars, refVars, matchVars, loadVars, frameVars, cfgVars, lifeVars, perturbVars, linkVars, cycleVars>>

SpecStatus == Init /\ [][NextStatus]_vars

\* the capture process overwriting the frame file while detection cycles
\* read it
NextFrame ==
    \/ FrameTruncate /\ UNCHANGED <<detVars, capVars, snapVars, refVars, matchVars, loadVars, statVars, cfgVars, lifeVars, perturbVars, linkVars, cycleVars>>
    \/ FrameWrite /\ UNCHANGED <<detVars, capVars, snapVars, refVars, matchVars, loadVars, statVars, cfgVars, lifeVars, perturbVars, linkVars, cycleVars>>
    \/ CycleFrame /\ UNCHANGED <<detVars, capVars, snapVars, refVars, matchVars, loadVars, statVars, cfgVars, lifeVars, perturbVars, linkVars, cycleVars>>

SpecFrame == Init /\ [][NextFrame]_vars

\* the evaluation loop of one cycle, for every configuration of the bounded
\* sets: any set of configured states, any priority list
InitCfg ==
    /\ DetInit /\ CapInit /\ SnapInit /\ RefInit /\ MatchInit
    /\ LoadInit /\ StatInit /\ FrameInit /\ LifeInit /\ PerturbInit /\ LinkInit /\ CyInit
    /\ det_states \in SUBSET StateNames
    /\ det_priority \in PriorityLists
    /\ matches_summary = NoMatches
    /\ cycle_done = FALSE

NextCfg ==
    CycleEvaluate /\ UNCHANGED <<detVars, capVars, snapVars, refVars, matchVars, loadVars, statVars, frameVars, lifeVars, perturbVars, linkVars, cycleVars>>

SpecCfg == InitCfg /\ [][NextCfg]_vars

\* the service from start to shutdown: the detection loop, snapshot_loop and
\* the capturer it drives, and lifespan joining the two threads.  The
\* detection cycles are those that end at the frame read or raise: what a
\* cycle detects plays no part in the shutdown.
NextLife ==
    \/ StepReadFail /\ UNCHANGED <<capVars, snapVars, lifeVars, perturbVars, linkVars, cycleVars>> /\ UNCHANGED <<refVars, matchVars, loadVars, statVars, frameVars, cfgVars, perturbVars, linkVars, cycleVars>>
    \/ StepRaise /\ UNCHANGED <<capVars, snapVars, lifeVars, perturbVars, linkVars, cycleVars>> /\ UNCHANGED <<refVars, matchVars, loadVars, statVars, frameVars, cfgVars, perturbVars, linkVars, cycleVars>>
    \/ DetLoopExit /\ UNCHANGED <<capVars, snapVars, lifeVars, perturbVars, linkVars, cycleVars>> /\ UNCHANGED <<refVars, matchVars, loadVars, statVars, frameVars, cfgVars, perturbVars, linkVars, cycleVars>>
    \/ SnapFirstStart /\ UNCHANGED <<detVars, lifeVars, perturbVars, linkVars, cycleVars>> /\ UNCHANGED <<refVars, matchVars, loadVars, statVars, frameVars, cfgVars, perturbVars, linkVars, cycleVars>>
    \/ SnapEnsure /\ UNCHANGED <<detVars, lifeVars, perturbVars, linkVars, cycleVars>> /\ UNCHANGED <<refVars, matchVars, loadVars, statVars, frameVars, cfgVars, perturbVars, linkVars, cycleVars>>
    \/ ErIsRunning("mon") /\ UNCHANGED <<detVars, snapVars, lifeVars, perturbVars, linkVars, cycleVars>> /\ UNCHANGED <<refVars, matchVars, loadVars, statVars, frameVars, cfgVars, perturbVars, linkVars, cycleVars>>
    \/ ErClean("mon") /\ UNCHANGED <<detVars, snapVars, lifeVars, perturbVars, linkVars, cycleVars>> /\ UNCHANGED <<refVars, matchVars, loadVars, statVars, frameVars, cfgVars, perturbVars, linkVars, cycleVars>>
    \/ ErTime("mon") /\ UNCHANGED <<detVars, snapVars, lifeVars, perturbVars, linkVars, cycleVars>> /\ UNCHANGED <<refVars, matchVars, loadVars, statVars, frameVars, cfgVars, perturbVars, linkVars, cycleVars>>
    \/ ErWake("mon") /\ UNCHANGED <<detVars, snapVars, lifeVars, perturbVars, linkVars, cycleVars>> /\ UNCHANGED <<refVars, matchVars, loadVars, statVars, frameVars, cfgVars, perturbVars, linkVars, cycleVars>>
    \/ ErStart("mon") /\ UNCHANGED <<detVars, snapVars, lifeVars, perturbVars, linkVars, cycleVars>> /\ UNCHANGED <<refVars, matchVars, loadVars, statVars, frameVars, cfgVars, perturbVars, linkVars, cycleVars>>
    \/ SnapErReturned /\ UNCHANGED <<detVars, lifeVars, perturbVars, linkVars, cycleVars>> /\ UNCHANGED <<refVars, matchVars, loadVars, statVars, frameVars, cfgVars, perturbVars, linkVars, cycleVars>>
    \/ SnapWaitDone /\ UNCHANGED <<detVars, lifeVars, perturbVars, linkVars, cycleVars>> /\ UNCHANGED <<refVars, matchVars, loadVars, statVars, frameVars, cfgVars, perturbVars, linkVars, cycleVars>>
    \/ LifeCleanup /\ UNCHANGED detVars /\ UNCHANGED <<refVars, matchVars, loadVars, statVars, frameVars, cfgVars, perturbVars, linkVars, cycleVars>>
    \/ StopEnd("mon") /\ UNCHANGED <<detVars, snapVars, lifeVars, perturbVars, linkVars, cycleVars>> /\ UNCHANGED <<refVars, matchVars, loadVars, statVars, frameVars, cfgVars, perturbVars, linkVars, cycleVars>>
    \/ SnapDone /\ UNCHANGED <<detVars, lifeVars, perturbVars, linkVars, cycleVars>> /\ UNCHANGED <<refVars, matchVars, loadVars, statVars, frameVars, cfgVars, perturbVars, linkVars, cycleVars>>
    \/ ProcExit /\ UNCHANGED <<detVars, snapVars, lifeVars, perturbVars, linkVars, cycleVars>> /\ UNCHANGED <<refVars, matchVars, loadVars, statVars, frameVars, cfgVars, perturbVars, linkVars, cycleVars>>
    \/ LifeTick /\ UNCHANGED <<detVars, snapVars, lifeVars, perturbVars, linkVars, cycleVars>> /\ UNCHANGED <<refVars, matchVars, loadVars, statVars, frameVars, cfgVars, perturbVars, linkVars, cycleVars>>
    \/ LifeShutdown /\ UNCHANGED <<capVars, snapVars>> /\ UNCHANGED <<refVars, matchVars, loadVars, statVars, frameVars, cfgVars, perturbVars, linkVars, cycleVars>>
    \/ LifeJoinDetect /\ UNCHANGED <<detVars, capVars, snapVars>> /\ UNCHANGED <<refVars, matchVars, loadVars, statVars, frameVars, cfgVars, perturbVars, linkVars, cycleVars>>
    \/ LifeJoinSnap /\ UNCHANGED <<detVars, capVars, snapVars>> /\ UNCHANGED <<refVars, matchVars, loadVars, statVars, frameVars, cfgVars, perturbVars, linkVars, cycleVars>>

SpecLife == Init /\ [][NextLife]_vars

\* StateMachine.update run from its initial state on every candidate sequence
\* of the bounded set and on the sequence with one input dropped or two
\* adjacent inputs swapped
InitPerturb ==
    /\ DetInit /\ CapInit /\ SnapInit /\ RefInit /\ MatchInit
    /\ LoadInit /\ StatInit /\ FrameInit /\ CfgInit /\ LifeInit /\ LinkInit /\ CyInit
    /\ p_seq \in CandidateSeqs
    /\ p_kind \in {"drop", "swap"}
    /\ p_idx \in 1..MaxSeq
    /\ p_idx <= (IF p_kind = "drop" THEN Len(p_seq) ELSE Len(p_seq) - 1)
    /\ p_runs = NoRuns

NextPerturb ==
    RunBoth /\ UNCHANGED <<detVars, capVars, snapVars, refVars, matchVars, loadVars, statVars, frameVars, cfgVars, lifeVars, linkVars, cycleVars>>

SpecPerturb == InitPerturb /\ [][NextPerturb]_vars

\* load_config on every configuration of the bounded set: any order of any
\* of the state names, each state with or without the ROI, the ROI with or
\* without coordinates and with or without a ref_state
InitLink ==
    /\ DetInit /\ CapInit /\ SnapInit /\ RefInit /\ MatchInit
    /\ LoadInit /\ StatInit /\ FrameInit /\ CfgInit /\ LifeInit /\ PerturbInit /\ CyInit
    /\ lk_order \in StateOrders
    /\ lk_rois \in [StateNames -> RoiEntries]
    /\ \A s \in StateNames :
         /\ s \notin Configured(lk_order) => lk_rois[s] = AbsentRoi
         /\ lk_rois[s].x \in {"NONE", "ABSENT", s}
    /\ lk_result = NoLoad

NextLink ==
    LoadConfigCall /\ UNCHANGED <<detVars, capVars, snapVars, refVars, matchVars, loadVars, statVars, frameVars, cfgVars, lifeVars, perturbVars, cycleVars>>

SpecLink == InitLink /\ [][NextLink]_vars

\* step() taken apart into its reload, its frame read and the matching of
\* each state, with add_ref and delete_ref running in threads of their own
NextCycle ==
    \/ CyReload /\ UNCHANGED <<detVars, capVars, snapVars, matchVars, loadVars, statVars, frameVars, cfgVars, lifeVars, perturbVars, linkVars>>
    \/ CyRead /\ UNCHANGED <<detVars, capVars, snapVars, matchVars, loadVars, statVars, frameVars, cfgVars, lifeVars, perturbVars, linkVars>>
    \/ CyMatch /\ UNCHANGED <<detVars, capVars, snapVars, matchVars, loadVars, statVars, frameVars, cfgVars, lifeVars, perturbVars, linkVars>>
    \/ \E s \in States : AddRef(s) /\ UNCHANGED cycleVars /\ UNCHANGED <<detVars, capVars, snapVars, matchVars, loadVars, statVars, frameVars, cfgVars, lifeVars, perturbVars, linkVars>>
    \/ \E s \in States : DeleteRef(s) /\ UNCHANGED cycleVars /\ UNCHANGED <<detVars, capVars, snapVars, matchVars, loadVars, statVars, frameVars, cfgVars, lifeVars, perturbVars, linkVars>>

SpecCycle == Init /\ [][NextCycle]_vars

(* ======================= claims about the detector ===================== *)
\* the states whose is_match is true in the DetectionResult of the last cycle
Matching == {s \in DOMAIN result.matches : result.matches[s].is_match}
Dist(s) == result.matches[s].avg_distance
PriorityIndex(s) == CHOOSE i \in 1..Len(priority) : priority[i] = s
\* s is the matching state of lowest distance, the earliest in priority among equals
IsBest(s) ==
    /\ s \in Matching
    /\ \A t \in Matching :
         \/ Dist(s) < Dist(t)
         \/ Dist(s) = Dist(t) /\ PriorityIndex(s) <= PriorityIndex(t)

C33_CandidateAmongMatches ==
    lastAct = "ok" =>
        /\ cand = Other <=> Matching = {}
        /\ cand # Other => cand \in Matching

\* the stabilized state did not match while another state did, and the
\* candidate was that other state
C33_Witness ==
    /\ lastAct = "ok" /\ prevState \in States /\ prevState \notin Matching
    /\ Matching # {} /\ cand \in Matching

\* C34: the candidate is OTHER when nothing matches; else the current
\* stabilized state when it matches with an average distance at most 3 above
\* the lowest of any matching state; else the matching state of lowest
\* average distance, the earlier in the priority list among equals.
C34_SelectionAsDocumented ==
    lastAct = "ok" =>
        IF Matching = {} THEN cand = Other
        ELSE IF /\ prevState \in Matching
                /\ \A t \in Matching : Dist(prevState) <= Dist(t) + LockTolerance
             THEN cand = prevState
             ELSE /\ cand \in Matching
                  /\ \A t \in Matching : Dist(cand) <= Dist(t)
                  /\ \A t \in Matching :
                        Dist(t) = Dist(cand) => PriorityIndex(cand) <= PriorityIndex(t)

\* the current state matched more than 3 above the best and was given up
C34_Witness ==
    /\ lastAct = "ok" /\ prevState \in Matching /\ cand # prevState
    /\ Dist(prevState) = Dist(cand) + LockTolerance + 1

\* C3: a cycle whose frame read fails returns UNKNOWN with an empty matches map
\* and leaves current_state, every hit-streak and the miss-streak as they were.
C3_ReadFailBypassesDebounce ==
    [][lastAct' = "readfail" =>
          /\ result'.state = Unknown
          /\ DOMAIN result'.matches = {}
          /\ current_state' = current_state
          /\ streaks' = streaks
          /\ none_streak' = none_streak]_vars

\* a failed read in the middle of a drop: one more OTHER would have left the state
C3_Witness ==
    /\ lastAct = "readfail" /\ result.state = Unknown
    /\ current_state # Other /\ none_streak = drop_frames - 1

\* C4: from OTHER, a non-OTHER candidate c keeps the state at OTHER until c has
\* been the candidate of confirm_frames consecutive debounced cycles; on the
\* cycle where c's hit-streak reaches confirm_frames the state becomes c.
C4_Confirm ==
    [][(lastAct' = "ok" /\ current_state = Other /\ cand' # Other) =>
          /\ StreakOf(streaks', cand') = runLen'
          /\ current_state' = IF runLen' >= confirm_frames THEN cand' ELSE Other]_vars

C4_Witness ==
    /\ lastAct = "ok" /\ prevState = Other /\ cand # Other
    /\ runLen = confirm_frames /\ current_state = cand

\* C5: in a non-OTHER state S, consecutive OTHER candidates keep S for the first
\* drop_frames-1 cycles and the drop_frames-th moves the state to OTHER.
C5_Drop ==
    [][(lastAct' = "ok" /\ current_state # Other /\ cand' = Other) =>
          /\ none_streak' = runLen'
          /\ current_state' = IF runLen' >= drop_frames THEN Other ELSE current_state]_vars

C5_Witness ==
    /\ lastAct = "ok" /\ prevState # Other /\ cand = Other
    /\ runLen = drop_frames /\ current_state = Other

\* C6: in a non-OTHER state S, a candidate T that is another non-OTHER state
\* changes the state to T only on a cycle where T's hit-streak has reached
\* confirm_frames and keeps S before that; a candidate S keeps S.
C6_SwitchBetweenStates ==
    [][(lastAct' = "ok" /\ current_state # Other /\ cand' # Other) =>
          /\ StreakOf(streaks', cand') = runLen'
          /\ current_state' = IF cand' # current_state /\ runLen' >= confirm_frames
                              THEN cand' ELSE current_state]_vars

C6_Witness ==
    /\ lastAct = "ok" /\ prevState # Other /\ cand \notin {Other, prevState}
    /\ runLen = confirm_frames /\ current_state = cand

\* C25: after every cycle whose frame was read, the matches of the result
\* hold a MatchResult for each configured state.
C25_EveryConfiguredStateEvaluated ==
    cycle_done => DOMAIN matches_summary = det_states

\* C25, the part that holds: every configured state the priority list names
\* has its MatchResult, whether or not a state before it matched.
C25_EveryListedStateEvaluated ==
    cycle_done =>
        DOMAIN matches_summary =
            det_states \cap {det_priority[i] : i \in DOMAIN det_priority}

\* two states are recorded and the first of the list matched
C25_ListedWitness ==
    /\ cycle_done /\ Len(det_priority) >= 2
    /\ det_priority[1] \in DOMAIN matches_summary
    /\ matches_summary[det_priority[1]]
    /\ det_priority[2] \in DOMAIN matches_summary
    /\ det_priority[2] # det_priority[1]

\* C23: whether the notifier call of a cycle raised or returned, the cycle
\* leaves the same stabilized state, debounce counters, DetectionResult and
\* status file behind.
C23_NotifierFailureIsolated ==
    lastAct = "ok" => Observed = quiet

\* the notifier raised in a cycle that changed the state and wrote the file
C23_Witness ==
    /\ lastAct = "ok" /\ notifyRaised /\ notified # <<>>
    /\ current_state # prevState
    /\ status_state = current_state /\ result.state = current_state

\* C24 as stated: a cycle calls the notifier if and only if its stabilized
\* state differs from the stabilized state of the cycle before, and then
\* with the pair (previous state, new state).
C24_NotifyIffStateChanged ==
    lastAct \in {"ok", "readfail"} =>
        /\ notified # <<>> <=> current_state # prevState
        /\ notified # <<>> => notified = <<prevState, current_state>>

\* C24, what step() does instead: the first cycle that reads its frame calls
\* the notifier with (UNKNOWN, its stabilized state), changed or not; every
\* other cycle calls it if and only if its stabilized state differs from that
\* of the cycle before, with the pair (previous state, new state); a cycle
\* makes at most that one call.
C24_NotifyOnChangeOrFirstCycle ==
    [][lastAct' \in {"ok", "readfail"} =>
          IF lastAct' = "ok" /\ runCand = "NONE"
          THEN notified' = <<Unknown, current_state'>>
          ELSE /\ notified' # <<>> <=> current_state' # current_state
               /\ notified' # <<>> => notified' = <<current_state, current_state'>>]_vars

\* C24: a state change is announced with the pair (previous state, new state)
C24_Witness ==
    /\ lastAct = "ok" /\ current_state # prevState /\ prevState # Other
    /\ notified = <<prevState, current_state>>

\* C37: one update changes the stabilized state only to the candidate it
\* was given: after update(c) from state s the state is s or c, so OTHER is
\* entered only on an OTHER candidate and a state T only on candidate T.
C37_OnlyToTheCandidate ==
    [][lastAct' = "ok" => current_state' \in {current_state, cand'}]_vars

\* a cycle that moved from one valid state to another, and the candidate it
\* was given was the new one
C37_Witness ==
    /\ lastAct = "ok"
    /\ prevState \in States /\ current_state \in States
    /\ prevState # current_state
    /\ cand = current_state

\* C38: after a cycle that read its frame the returned state, the
\* debouncer's current_state and _last_state are one value; a cycle whose
\* read fails changes neither the debouncer's state nor _last_state.
C38_ResultStateLastStateAgree ==
    [][ /\ lastAct' = "ok" =>
             /\ result'.state = current_state'
             /\ last_state' = current_state'
        /\ lastAct' = "readfail" =>
             /\ current_state' = current_state
             /\ last_state' = last_state ]_vars

\* a cycle that changed the stabilized state with the notifier raising, and
\* the three values agree on the new state
C38_Witness ==
    /\ lastAct = "ok"
    /\ prevState # current_state
    /\ notifyRaised
    /\ result.state = current_state
    /\ last_state = current_state

(* ============ claims about the capturer under several callers ========= *)
\* C39: whatever threads call start(), stop(), ensure_running() and
\* is_running(), at most one spawned capture process is alive, and a process
\* that is alive is the one the handle refers to: the handle of a live
\* process is never dropped.
C39_OneLiveProcessHandleKept ==
    /\ Cardinality(alive) <= 1
    /\ \A p \in alive : process = p

\* a thread found the handle of a live process where it meant to clear a dead
\* one, waited for the process to exit, and only then cleared the handle
C39_Witness ==
    /\ capAct = <<"cleanwaited", "ensure_running">>
    /\ process = 0 /\ alive = {}
    /\ spawned >= 1

(* ================== claims about the order of a cycle ================== *)
\* C36: in a cycle the staleness check comes before the frame read and
\* before any match, and every state of the cycle is matched against the
\* cache as that check left it.
C36_MatchedAgainstCheckedCache ==
    /\ cy.steps # <<>> => cy.steps[1] = "reload_if_needed"
    /\ \A k \in DOMAIN cy.steps : cy.steps[k] = "match" => k >= 3
    /\ \A s \in DOMAIN cy.used :
          cy.used[s] = (IF s \in DOMAIN cy.checked THEN cy.checked[s]
                        ELSE EmptyCache)

\* C36, the part that holds: the check is the first thing a cycle does, the
\* frame read the second, and the matches follow.
C36_CheckThenReadThenMatch ==
    \A k \in DOMAIN cy.steps :
        cy.steps[k] = (IF k = 1 THEN "reload_if_needed"
                       ELSE IF k = 2 THEN "read" ELSE "match")

(* ======================= claims about load_config ====================== *)
\* state a's ROI is linked to a state whose ROI of the same name is linked
\* itself
Chained(a) ==
    /\ a \in Configured(lk_order) /\ IsLinked(lk_rois[a])
    /\ lk_rois[a].ref_state \in Configured(lk_order)
    /\ IsLinked(lk_rois[lk_rois[a].ref_state])

C32_ChainRejectedWhenHeirFirst ==
    lk_result.done =>
        \A a \in StateNames :
            (/\ Chained(a)
             /\ \E i, j \in DOMAIN lk_order :
                   i < j /\ lk_order[i] = a /\ lk_order[j] = lk_rois[a].ref_state)
                => ~lk_result.ok

(* ================== claims about StateMachine.update =================== *)
\* C29: an update with a candidate c other than OTHER leaves c's hit-streak
\* one above its value before, every other hit-streak at 0 and the
\* miss-streak at 0; an update with OTHER leaves the miss-streak one above
\* its value before and no hit-streak.  Hence at most one candidate has a
\* non-zero hit-streak, and never together with a non-zero miss-streak.
C29_StreakBookkeeping ==
    /\ [](/\ \A a, b \in DOMAIN streaks :
                streaks[a] > 0 /\ streaks[b] > 0 => a = b
          /\ ~(none_streak > 0 /\ \E s \in DOMAIN streaks : streaks[s] > 0))
    /\ [][lastAct' = "ok" =>
            IF cand' # Other
            THEN /\ StreakOf(streaks', cand') = StreakOf(streaks, cand') + 1
                 /\ \A s \in States \ {cand'} : StreakOf(streaks', s) = 0
                 /\ none_streak' = 0
            ELSE /\ none_streak' = none_streak + 1
                 /\ \A s \in States : StreakOf(streaks', s) = 0]_vars

\* a candidate's streak is at 2 and the streak another candidate had built
\* up before is back at 0
C29_Witness ==
    /\ lastAct = "ok" /\ cand # Other
    /\ StreakOf(streaks, cand) = 2 /\ none_streak = 0
    /\ \E s \in DOMAIN streaks : s # cand /\ streaks[s] = 0

\* C31: the stabilized state does not change in a cycle whose candidate
\* differs from the candidate of the debounced cycle before it, nor in the
\* first debounced cycle (confirm_frames >= 2 and drop_frames >= 2).
C31_SingleCycleCandidateNoTransition ==
    [][(lastAct' = "ok" /\ cand' # runCand) => current_state' = current_state]_vars

\* in a configured state, one cycle came with another state as candidate,
\* and one with OTHER: the state stayed
C31_Witness ==
    /\ lastAct = "ok" /\ current_state \in States /\ prevState = current_state
    /\ cand # current_state /\ runLen = 1
    /\ confirm_frames >= 2 /\ drop_frames >= 2

\* C35: once the candidate has been the same state c in confirm_frames
\* debounced cycles in a row, from whatever state, the stabilized state is c,
\* and it stays c while the candidate stays c; once it has been OTHER in
\* drop_frames cycles in a row the stabilized state is OTHER and stays so.
C35_BoundedResponse ==
    /\ (runCand \in States /\ runLen >= confirm_frames) => current_state = runCand
    /\ (runCand = Other /\ runLen >= drop_frames) => current_state = Other

\* the candidate stayed the same for one cycle more than the threshold, after
\* the machine had been in another configured state
C35_Witness ==
    /\ lastAct = "ok" /\ runCand \in States /\ runLen = confirm_frames + 1
    /\ current_state = runCand
    /\ \E s \in DOMAIN streaks : s # runCand

\* C30: the debounce machine starts in OTHER, and its stabilized state is
\* always OTHER or a configured state, never UNKNOWN; UNKNOWN is the state of
\* a DetectionResult only when the cycle's frame read failed.
C30_StabilizedStateNeverUnknown ==
    /\ current_state \in States \cup {Other}
    /\ current_state # Unknown
    /\ lastAct = "none" => current_state = Other
    /\ lastAct = "ok" => result.state = current_state
    /\ lastAct = "readfail" => result.state = Unknown

\* a failed read returned UNKNOWN while the machine stayed in a configured state
C30_Witness ==
    /\ lastAct = "readfail" /\ result.state = Unknown
    /\ current_state \in States

\* whether the perturbation brings two equal inputs together that the
\* original sequence kept apart
At(seq, i) == IF i \in DOMAIN seq THEN seq[i] ELSE "NONE"
JoinsEqualInputs ==
    IF p_kind = "drop"
    THEN /\ At(p_seq, p_idx - 1) = At(p_seq, p_idx + 1)
         /\ At(p_seq, p_idx - 1) # "NONE"
         /\ At(p_seq, p_idx) # At(p_seq, p_idx + 1)
    ELSE /\ At(p_seq, p_idx) # At(p_seq, p_idx + 1)
         /\ \/ At(p_seq, p_idx - 1) = At(p_seq, p_idx + 1)
            \/ At(p_seq, p_idx) = At(p_seq, p_idx + 2)

\* C28 as stated: the run on the sequence with one input dropped, or two
\* adjacent inputs swapped, makes no transition and reaches no state that the
\* run on the original sequence does not make or reach.
C28_PerturbationOnlyDelays ==
    p_runs.done =>
        /\ p_runs.pert.transitions \subseteq p_runs.orig.transitions
        /\ p_runs.pert.visited \subseteq p_runs.orig.visited

\* C28 as amended: when the perturbation brings no two equal inputs together
\* that the original kept apart, the perturbed run reaches no stabilized
\* state that the original run does not reach.
C28_NoNewStateUnlessJoined ==
    (p_runs.done /\ ~JoinsEqualInputs) =>
        p_runs.pert.visited \subseteq p_runs.orig.visited

\* an input is dropped from inside the sequence without joining equal
\* inputs, and the perturbed run misses a state the original reaches
C28_Witness ==
    /\ p_runs.done /\ ~JoinsEqualInputs
    /\ p_kind = "drop" /\ p_idx > 1 /\ p_idx < Len(p_seq)
    /\ p_runs.orig.visited # {Other}
    /\ p_runs.pert.visited # p_runs.orig.visited

(* ======================= claims about the shutdown ===================== *)
\* C26: once the shutdown has completed, no capture process started by the
\* supervisor is still running.
C26_NoCaptureProcessAfterShutdown ==
    lifePc = "completed" => alive = {}

\* C26: once the shutdown has completed, both background loops have ended.
C26_LoopsEndedAfterShutdown ==
    lifePc = "completed" =>
        detLoop # "running" /\ snapPc \in {"done", "returned"}

\* C26, what a join without timeout would give: when lifespan ends after
\* snapshot_loop ran its stop(), no capture process is left.
C26_StoppedWhenLoopJoined ==
    lifePc = "completed" /\ snapPc = "done" /\ pc["mon"] = "idle"
        => process = 0 /\ (stop_requested => alive = {})

(* ======================= claims about the capturer ===================== *)
\* C27: when the spawn of the capture process fails inside ensure_running(),
\* the call returns False and the status reports running = false; and an
\* ensure_running() call returns without a start attempt only when it saw the
\* stop request or a live process, so a call made while no stop is requested
\* and nothing runs attempts the start again.
C27_SpawnFailureReportedAndRetried ==
    /\ capAct = <<"spawnfail", "ensure_running">> =>
          /\ ret["mon"] = FALSE
          /\ ~IsAlive /\ process = 0
          /\ pc["mon"] = "idle"
    /\ (capAct[2] = "ensure_running" /\ pc["mon"] = "idle") =>
          \/ capAct[1] = "refused" /\ stop_requested
          \/ capAct[1] = "isrunning" /\ IsAlive /\ ret["mon"] = TRUE
          \/ capAct[1] \in {"already", "spawn", "spawnfail"}

\* a second start attempt through ensure_running fails like the first: no
\* process was ever spawned, and the restart was counted twice
C27_Witness ==
    /\ capAct = <<"spawnfail", "ensure_running">>
    /\ restart_count >= 2 /\ spawned = 0
    /\ ~stop_requested

StartAttempts == {<<"spawn", "ensure_running">>, <<"spawnfail", "ensure_running">>}

\* C7: once stop() has set the stop request, ensure_running() neither starts
\* a capture process nor clears the request, in every interleaving of an
\* ensure_running() call with a stop() call.
C7_NoSpawnAfterStop ==
    [][stop_requested => capAct' \notin StartAttempts]_vars

\* C8: whenever ensure_running() spawns a capture process, the new start
\* timestamp is at least 5 seconds later than the previous start timestamp.
C8_RestartSpacing ==
    [][capAct' = <<"spawn", "ensure_running">> =>
          last_start_time' >= last_start_time + RestartFloor]_vars

\* a restart after an earlier start, which had to wait for the floor and was
\* made the moment the floor was reached
C8_Witness ==
    /\ capAct = <<"spawn", "ensure_running">>
    /\ prevStartTime > 0
    /\ last_start_time = prevStartTime + RestartFloor

\* C9: after ensure_running() made a start attempt at time t, successful or
\* not, it makes no further start attempt before t + 5 seconds.
C9_SpacingFromLastAttempt ==
    [][(capAct' \in StartAttempts /\ erAttempt # 0) =>
          now >= erAttempt + RestartFloor]_vars

(* ==================== claims about the background loops ================ *)
\* C10: nothing but the shutdown signal ends the background loops; here the
\* capture monitor loop: it is left only after stop_event was set, also when
\* the very first start of the capture process fails.
C10_MonitorLoopSurvives ==
    snapPc \in {"returned", "done"} => stop_event

\* C10 for the detection loop (specification Spec): no exception of a
\* detection cycle ends the loop.
C10_DetectionLoopSurvives ==
    detLoop # "crashed"

(* ======================= claims about the status file ================== *)
\* C11: after any detection cycle, also one that ends in UNKNOWN because the
\* frame could not be read, the status file's state field equals the state
\* returned by that cycle.
C11_StatusFollowsEveryCycle ==
    lastAct \in {"ok", "readfail"} => status_state = result.state

(* ===================== claims about the reference cache ================ *)
\* the files whose fingerprint is in the cached list of ROI r of state s
CachedFiles(s, r) ==
    {GetHashes(caches, s, r)[i].file : i \in 1..Len(GetHashes(caches, s, r))}
ImageFiles(s) == (DOMAIN refs_dir[s].files) \ {Junk}

\* C12: reload_if_needed() does not recompute a state's fingerprints while the
\* largest file mtime of its directory is what it was at the last load; when
\* the last change of the directory was the touch of a file, the next
\* reload_if_needed() recomputes that state's cache, once, and, the mtime
\* being unchanged from then on, later calls do not recompute it again.
C12_ReloadOncePerTouch ==
    [][refAct'[1] = "reload_if_needed" =>
          \A s \in States :
             /\ GetDirMtime(refs_dir[s]) = loadMtime[s] => s \notin loaded'
             /\ lastChange[s] = "touch" =>
                   /\ s \in loaded'
                   /\ loadMtime'[s] = GetDirMtime(refs_dir'[s])]_vars

\* a reload that recomputed the cache of a state because a file was touched
C12_Witness ==
    /\ refAct[1] = "reload_if_needed"
    /\ \E s \in States : s \in loaded /\ cause[s] = "touch"

\* C13: after the reload_if_needed() call that follows a change of a reference
\* directory, a removal included, the cache holds no fingerprint of a file
\* that is no longer in the directory.
C13_ReloadDropsRemovedFiles ==
    refAct[1] = "reload_if_needed" =>
        \A s \in States, r \in RoiSet : CachedFiles(s, r) \subseteq ImageFiles(s)

\* C14: after add_ref or delete_ref has returned (each ends with load_all()),
\* every state's cached fingerprint list of every ROI has exactly one
\* fingerprint per image file that is in the state's reference directory.
C14_LoadAllMatchesDirectory ==
    refAct[1] \in {"add_ref", "delete_ref"} =>
        \A s \in States, r \in RoiSet :
           /\ CachedFiles(s, r) = ImageFiles(s)
           /\ Len(GetHashes(caches, s, r)) = Cardinality(ImageFiles(s))

\* C18: a state whose reference directory is missing or holds no readable
\* image (no ROI of it being linked to another state) has is_match = false in
\* every cycle.
C18_NoReferencesNeverMatches ==
    refAct = <<"reload_if_needed", "matched">> =>
        \A s \in States : ImageFiles(s) = {} => s \notin evalMatched

\* what holds of the code: a state whose cached lists are all empty, as they
\* are after a load that found the directory missing or without an image,
\* has is_match = false
C18_EmptyCacheNeverMatches ==
    refAct = <<"reload_if_needed", "matched">> =>
        \A s \in States :
           (\A r \in RoiSet : GetHashes(caches, s, r) = <<>>) => s \notin evalMatched

\* a per-state cache entry all of whose ROI lists were built from the same
\* images: the empty dict of a missing directory, or every ROI with the
\* same files in the same versions
WholeCache(sc) ==
    \/ sc = EmptyCache
    \/ /\ DOMAIN sc = RoiSet
       /\ \A r \in RoiSet : sc[r] = sc[RoiNames[1]]

C20_StatusNeverPartial ==
    /\ \/ status_fs["path"] = NoFile
       \/ Complete(status_fs["path"]) /\ status_fs["path"].state \in handed
    /\ gs.pc = "open" => Complete(gs.file) /\ gs.file.state \in handed
    /\ gs.answer = "error" => gs.file = NoFile

C20_Witness ==
    /\ ws.pc = "writing"
    /\ status_fs[WriteTarget].n > 0 /\ status_fs[WriteTarget].n < MaxChunks
    /\ gs.pc = "open" /\ gs.file.state # ws.res

(* ======================= claims about the frame file =================== *)
\* C21: the image handed to the matcher is never a partially written frame:
\* a cycle's read, whatever the capture process is doing to the file, ends
\* with a complete frame the process wrote or with a read failure.
C21_NoPartialFrameMatched ==
    /\ fr.outcome = "matched" =>
          /\ fr.img.n = MaxChunks
          /\ fr.img.id \in 1..frames_written
          /\ fr.img = fr.data
    /\ fr.outcome = "readfail" => fr.img = NoFrame /\ ~Decodes(fr.data)

\* a cycle read the file while a frame was half written and failed
C21_Witness ==
    /\ fr.outcome = "readfail"
    /\ fr.data.id >= 2 /\ fr.data.n > 0 /\ fr.data.n < MaxChunks

\* C22: a cycle reports UNKNOWN for a failed frame read only after it
\* retried the read (more than one attempt was made in the cycle).
C22_UnknownOnlyAfterRetries ==
    fr.outcome = "readfail" => fr.attempts >= 2

(* ========================= claims about match_state ==================== *)
\* the call has returned
Matched == m_result # NoResult
\* what the claims say of ROI i of the call, read off the input
HasRefs(i) == m_rois[i].dists # <<>>
LeastDist(i) ==
    CHOOSE d \in {m_rois[i].dists[k] : k \in 1..Len(m_rois[i].dists)} :
        \A k \in 1..Len(m_rois[i].dists) : d <= m_rois[i].dists[k]
Within(i) == HasRefs(i) /\ LeastDist(i) <= m_policy.threshold
Positive(i) == ~m_rois[i].negative
RequiredMiss(i) ==
    /\ m_rois[i].required
    /\ \/ ~HasRefs(i)
       \/ Positive(i) /\ ~Within(i)
       \/ ~Positive(i) /\ Within(i)
\* the positive ROIs whose least distance is within the threshold
MatchedRois == {i \in 1..Len(m_rois) : Positive(i) /\ Within(i)}
\* the ROIs that contribute to the average, and what each contributes
Contributors == {i \in 1..Len(m_rois) : HasRefs(i)}
Contributed(i) ==
    IF Positive(i) THEN LeastDist(i) ELSE IF Within(i) THEN Penalty ELSE 0
RECURSIVE SumOver(_)
SumOver(S) ==
    IF S = {} THEN 0
    ELSE LET i == CHOOSE x \in S : TRUE IN Contributed(i) + SumOver(S \ {i})

\* C15: for a state of one positive and one negative ROI, both with
\* references, and threshold 10: whenever both least distances are at most 10
\* (the forbidden signature is there), is_match is false although the
\* positive ROI counts as matched, and the reported average, which holds the
\* penalty of 100, is above the threshold.
C15_PenaltyVetoesMatch ==
    ( /\ Matched /\ Len(m_rois) = 2 /\ m_policy.threshold = 10
      /\ \E i, j \in 1..2 : Positive(i) /\ ~Positive(j)
      /\ \A i \in 1..2 : HasRefs(i) /\ LeastDist(i) <= 10 )
    => /\ ~m_result.is_match
       /\ Len(m_result.matched_rois) = 1
       /\ m_result.avg_distance[1] > 10 * m_result.avg_distance[2]

\* the case of spec section 8: distances 2 and 3, neither ROI required, min_match 1
C15_Witness ==
    /\ Matched /\ m_policy = [min_match |-> 1, threshold |-> 10]
    /\ m_rois = <<[required |-> FALSE, negative |-> FALSE, dists |-> <<2>>],
                  [required |-> FALSE, negative |-> TRUE, dists |-> <<3>>]>>
    /\ ~m_result.is_match /\ m_result.matched_rois = <<1>>
    /\ m_result.avg_distance = <<102, 2>>

\* C16: when no ROI has a required-miss, is_match is true exactly when the
\* number of matched positive ROIs is at least min_match and the average, the
\* sum of the contributions over the number of ROIs that contributed, is at
\* most the threshold; that average is the one reported.
C16_CountFloorAndAverageCeiling ==
    (Matched /\ \A i \in 1..Len(m_rois) : ~RequiredMiss(i)) =>
        /\ m_result.is_match <=>
              /\ Cardinality(MatchedRois) >= m_policy.min_match
              /\ SumOver(Contributors) <= m_policy.threshold * Cardinality(Contributors)
        /\ Contributors # {} =>
              m_result.avg_distance = <<SumOver(Contributors), Cardinality(Contributors)>>

\* enough ROIs matched and the average alone refused the match
C16_Witness ==
    /\ Matched /\ \A i \in 1..Len(m_rois) : ~RequiredMiss(i)
    /\ Cardinality(MatchedRois) >= m_policy.min_match
    /\ SumOver(Contributors) > m_policy.threshold * Cardinality(Contributors)
    /\ ~m_result.is_match

\* C17: is_match is false whenever a required ROI has a required-miss (no
\* references, or positive and beyond the threshold, or negative and within
\* it), whatever the other ROIs, min_match and the average are.
C17_RequiredMissFails ==
    (Matched /\ \E i \in 1..Len(m_rois) : RequiredMiss(i)) => ~m_result.is_match

\* a required ROI without references beside enough matched ROIs and an
\* average within the threshold
C17_Witness ==
    /\ Matched /\ \E i \in 1..Len(m_rois) : m_rois[i].required /\ ~HasRefs(i)
    /\ Cardinality(MatchedRois) >= m_policy.min_match
    /\ Contributors # {}
    /\ SumOver(Contributors) <= m_policy.threshold * Cardinality(Contributors)
    /\ ~m_result.is_match

\* C40: every ROI with references is in the reported average, the matched
\* ones and the others alike, also when the call fails on a required miss: a
\* positive ROI adds its least distance whether or not that is within the
\* threshold, a negative ROI that is absent adds 0, one that is found the
\* penalty, each adds 1 to the divisor, and the ROIs without references are
\* in neither; with no ROI to average the call reports -1 or 999.
C40_EveryRoiWithReferencesAveraged ==
    Matched =>
        IF Contributors = {}
        THEN m_result.avg_distance \in {<<-1, 1>>, <<NoRoiDistance, 1>>}
        ELSE m_result.avg_distance
                 = <<SumOver(Contributors), Cardinality(Contributors)>>

\* a free positive ROI beyond the threshold beside a negative ROI that is
\* absent: the average is the positive ROI's raw distance over 2
C40_Witness ==
    /\ Matched /\ Len(m_rois) = 2
    /\ \E i, j \in 1..2 :
         /\ Positive(i) /\ ~m_rois[i].required /\ HasRefs(i) /\ ~Within(i)
         /\ ~Positive(j) /\ HasRefs(j) /\ ~Within(j)
         /\ m_result.avg_distance = <<LeastDist(i), 2>>
    /\ m_result.matched_rois = <<>>

====
